---------------------------- MODULE Spec2Model ----------------------------
(***************************************************************************)
(* Double-word arithmetic of cdsl/dwa.c as a state machine.                *)
(*                                                                         *)
(* A dwa_t is its radix-BASE digit array u.v, little endian: a function    *)
(* 0..SIZE-1 -> 0..BASE-1.  Every C loop is a RECURSIVE operator that      *)
(* carries the loop's variables; the C names are kept.                     *)
(*                                                                         *)
(* Scale.  The code has 8-bit digits (BASE = 1 << 8) and SIZE =            *)
(* 2*sizeof(long) digits.  The model keeps the code symbolic in BASE and   *)
(* SIZE and instantiates a digit of DigitBits bits and SIZE = 4 digits     *)
(* (two digits per native word), so that every value, and every reference  *)
(* value it is compared with, fits the integers of the model checker.      *)
(* The constants the code writes for an 8-bit digit (>> 7, 0x80, 0xff,     *)
(* n/8, 8-n) are written with DigitBits.  Radixes 2..36 stay below BASE,   *)
(* as in the code.                                                         *)
(***************************************************************************)
EXTENDS Integers, Sequences, FiniteSets, TLC

DigitBits == 6

SIZE == 4

BASE == 2 ^ DigitBits

Idx == 0 .. (SIZE - 1)

\* sizeof(long) in digits: dwa_touint() reads SIZE / 2 digits
WordDigits == SIZE \div 2

\* ULONG_MAX + 1, LONG_MAX and LONG_MIN of the native word
ULongMod == BASE ^ WordDigits
LONG_MAX == (ULongMod \div 2) - 1
LONG_MIN == 0 - (ULongMod \div 2)

\* dwa_t t = { 0, };
Zero == [i \in Idx |-> 0]

\* #define sign(x) ((x).u.v[SIZE-1] >> 7)
sign(x) == x[SIZE - 1] \div (2 ^ (DigitBits - 1))

(***************************************************************************)
(* Native integer conversions of C: unsigned long arithmetic is modulo     *)
(* ULongMod; a conversion to long, and an overflowing negation of a long,  *)
(* wrap around (two's complement).                                         *)
(***************************************************************************)
ToULong(n) == n % ULongMod

ToLong(n) == LET u == n % ULongMod IN IF u > LONG_MAX THEN u - ULongMod ELSE u

(***************************************************************************)
(* conversion from and to native integers                                  *)
(***************************************************************************)
RECURSIVE fromuintLoop(_, _, _)
fromuintLoop(t, i, v) ==
    LET t1 == [t EXCEPT ![i] = v % BASE]
        v1 == v \div BASE
    IN  IF v1 > 0 /\ i + 1 < SIZE THEN fromuintLoop(t1, i + 1, v1) ELSE t1

dwa_fromuint(v) == fromuintLoop(Zero, 0, v)

\* mutant of dwa_neg: the complement without the one added
dwa_negOnes(x) == [i \in Idx |-> BASE - 1 - x[i]]

RECURSIVE negLoop(_, _, _, _)
negLoop(x, t, i, c) ==
    IF i < SIZE
    THEN LET c1 == c + (BASE - 1 - x[i])
         IN  negLoop(x, [t EXCEPT ![i] = c1 % BASE], i + 1, c1 \div BASE)
    ELSE t

dwa_neg(x) == negLoop(x, Zero, 0, 1)

\* mutant of dwa_fromint: the magnitude of a negative value is not negated
dwa_fromintMagnitude(v) ==
    IF v < 0
    THEN dwa_fromuint(IF v = LONG_MIN THEN ToULong(LONG_MAX + 1) ELSE ToULong(0 - v))
    ELSE dwa_fromuint(ToULong(v))

dwa_fromint(v) ==
    IF v < 0
    THEN dwa_neg(dwa_fromuint(IF v = LONG_MIN THEN ToULong(LONG_MAX + 1)
                                              ELSE ToULong(0 - v)))
    ELSE dwa_fromuint(ToULong(v))

RECURSIVE touintLoop(_, _, _)
touintLoop(x, i, v) ==
    IF i > 0 THEN touintLoop(x, i - 1, ToULong(v * BASE + x[i - 1])) ELSE v

dwa_touint(x) == touintLoop(x, WordDigits, 0)

\* mutant of dwa_toint: the magnitude of a negative value is not negated
dwa_tointMagnitude(x) ==
    IF sign(x) # 0 THEN ToLong(dwa_touint(dwa_neg(x))) ELSE ToLong(dwa_touint(x))

dwa_toint(x) ==
    IF sign(x) # 0
    THEN ToLong(0 - ToLong(dwa_touint(dwa_neg(x))))
    ELSE ToLong(dwa_touint(x))

(***************************************************************************)
(* arithmetic                                                              *)
(***************************************************************************)
\* mutant of dwa_addu: the carry out of a digit is dropped
dwa_adduNoCarry(x, y) == [i \in Idx |-> (x[i] + y[i]) % BASE]

RECURSIVE adduLoop(_, _, _, _, _)
adduLoop(x, y, t, i, c) ==
    IF i < SIZE
    THEN LET c1 == c + x[i] + y[i]
         IN  adduLoop(x, y, [t EXCEPT ![i] = c1 % BASE], i + 1, c1 \div BASE)
    ELSE t

dwa_addu(x, y) == adduLoop(x, y, Zero, 0, 0)

dwa_add(x, y) == dwa_addu(x, y)

dwa_subu(x, y) == dwa_addu(x, dwa_neg(y))

dwa_sub(x, y) == dwa_addu(x, dwa_neg(y))

\* for (; j < 2*SIZE - i; j++)
RECURSIVE muluCarry(_, _, _, _)
muluCarry(z, i, j, c) ==
    IF j < 2 * SIZE - i
    THEN LET c1 == c + z[i + j]
         IN  muluCarry([z EXCEPT ![i + j] = c1 % BASE], i, j + 1, c1 \div BASE)
    ELSE z

\* mutant of muluRow: the digit already in z[i+j] is overwritten, not added
RECURSIVE muluRowOverwrite(_, _, _, _, _, _)
muluRowOverwrite(x, y, z, i, j, c) ==
    IF j < SIZE
    THEN LET c1 == c + x[i] * y[j]
         IN  muluRowOverwrite(x, y, [z EXCEPT ![i + j] = c1 % BASE], i, j + 1, c1 \div BASE)
    ELSE muluCarry(z, i, j, c)

\* for (j = 0; j < SIZE; j++)
RECURSIVE muluRow(_, _, _, _, _, _)
muluRow(x, y, z, i, j, c) ==
    IF j < SIZE
    THEN LET c1 == c + x[i] * y[j] + z[i + j]
         IN  muluRow(x, y, [z EXCEPT ![i + j] = c1 % BASE], i, j + 1, c1 \div BASE)
    ELSE muluCarry(z, i, j, c)

\* for (i = 0; i < SIZE; i++)
RECURSIVE muluLoop(_, _, _, _)
muluLoop(x, y, z, i) ==
    IF i < SIZE THEN muluLoop(x, y, muluRow(x, y, z, i, 0, 0), i + 1) ELSE z

dwa_mulu(x, y) ==
    LET z == muluLoop(x, y, [j \in 0 .. (2 * SIZE - 1) |-> 0], 0)
    IN  [i \in Idx |-> z[i]]

\* mutant of dwa_mul: the product of the magnitudes is returned as it is
dwa_mulMagnitudes(x, y) ==
    dwa_mulu(IF sign(x) # 0 THEN dwa_neg(x) ELSE x, IF sign(y) # 0 THEN dwa_neg(y) ELSE y)

\* dwa_mul(): the operands' magnitudes multiplied, the product negated if the
\* signs differ
dwa_mul(x, y) ==
    LET sx == sign(x)
        sy == sign(y)
        x1 == IF sx # 0 THEN dwa_neg(x) ELSE x
        y1 == IF sy # 0 THEN dwa_neg(y) ELSE y
        t  == dwa_mulu(x1, y1)
    IN  IF sx # sy THEN dwa_neg(t) ELSE t

RECURSIVE lenLoop(_, _)
lenLoop(x, i) == IF i > 1 /\ x[i - 1] = 0 THEN lenLoop(x, i - 1) ELSE i

len(x) == lenLoop(x, SIZE)

\* quot(): y is a single digit, mod selects the remainder
RECURSIVE quotLoop(_, _, _, _, _, _)
quotLoop(x, y, mod, t, i, c) ==
    IF i >= 0
    THEN LET c1 == c * BASE + x[i]
             t1 == IF mod = 0 THEN [t EXCEPT ![i] = (c1 \div y) % BASE] ELSE t
         IN  quotLoop(x, y, mod, t1, i - 1, c1 % y)
    ELSE IF mod # 0 THEN [t EXCEPT ![0] = c % BASE] ELSE t

quot(x, y, mod) == quotLoop(x, y, mod, Zero, SIZE - 1, 0)

(***************************************************************************)
(* prod() and sub() work on digit arrays in place; a is the array (a       *)
(* function on a range of indices), zo, xo and yo are the offsets of the   *)
(* operands in it.                                                         *)
(***************************************************************************)
\* prod(n, z, x, y): z = x * y for the n digits of x held by the function x;
\* the result is the array with z written and the carry returned.
RECURSIVE prodLoop(_, _, _, _, _, _, _)
prodLoop(n, a, zo, x, y, i, c) ==
    IF i < n
    THEN LET c1 == c + x[i] * y
         IN  prodLoop(n, [a EXCEPT ![zo + i] = c1 % BASE], zo, x, y, i + 1, c1 \div BASE)
    ELSE [a |-> a, c |-> c]

prod(n, a, zo, x, y) == prodLoop(n, a, zo, x, y, 0, 0)

\* mutant of sub: the borrow is not carried to the next digit
RECURSIVE subNoBorrowLoop(_, _, _, _, _)
subNoBorrowLoop(n, a, xo, yo, i) ==
    IF i < n
    THEN LET d == (a[xo + i] + BASE) - a[yo + i]
         IN  subNoBorrowLoop(n, [a EXCEPT ![xo + i] = d % BASE], xo, yo, i + 1)
    ELSE [a |-> a, b |-> 0]

subNoBorrow(n, a, xo, yo) == subNoBorrowLoop(n, a, xo, yo, 0)

\* sub(n, z, x, y) with z = x = &a[xo] and y = &a[yo]
RECURSIVE subLoop(_, _, _, _, _, _)
subLoop(n, a, xo, yo, i, b) ==
    IF i < n
    THEN LET d == (a[xo + i] + BASE) - b - a[yo + i]
         IN  subLoop(n, [a EXCEPT ![xo + i] = d % BASE], xo, yo, i + 1, 1 - (d \div BASE))
    ELSE [a |-> a, b |-> b]

sub(n, a, xo, yo) == subLoop(n, a, xo, yo, 0, 0)

(***************************************************************************)
(* dwa_divu().  tmp is the function's static scratch array; rem = tmp and  *)
(* dq = tmp + n + 1 are offsets into it.  divuRun returns the result t and *)
(* the scratch array as the call leaves it.                                *)
(***************************************************************************)
TmpIdx == 0 .. (SIZE * 2 + 1)

\* for (i = m; i > 0; i--) if (rem[i+k] != dq[i]) break;
RECURSIVE divuCmp(_, _, _, _)
divuCmp(a, k, dqo, i) ==
    IF i > 0 /\ a[i + k] = a[dqo + i] THEN divuCmp(a, k, dqo, i - 1) ELSE i

\* the estimate of one quotient digit: qk = r3/y2, capped to BASE - 1
divuEstimate(a, y, m, k) ==
    LET km == k + m
        y2 == y[m - 1] * BASE + y[m - 2]
        r3 == a[km] * (BASE * BASE) + a[km - 1] * BASE + a[km - 2]
        qk == r3 \div y2
    IN  IF qk >= BASE THEN BASE - 1 ELSE qk

\* dq[m] = prod(m, dq, y.u.v, qk), with dq = tmp + n + 1
divuDq(a, y, n, m, qk) ==
    LET p == prod(m, a, n + 1, y, qk)
    IN  [p.a EXCEPT ![n + 1 + m] = p.c % BASE]

\* mutant of divuLess: only the top digits rem[m+k] and dq[m] are compared
divuLessTop(a, n, m, k) == a[m + k] < a[n + 1 + m]

\* rem[i+k] < dq[i] at the i where the comparison stopped
divuLess(a, n, m, k) ==
    LET i == divuCmp(a, k, n + 1, m)
    IN  a[i + k] < a[n + 1 + i]

\* t.u.v[k] = qk; sub(m+1, &rem[k], &rem[k], dq): the digit, the array after
\* the subtraction and the borrow it leaves
divuSub(a, n, m, k, qk, fix) ==
    LET s == sub(m + 1, a, k, n + 1)
    IN  [qk |-> qk, a |-> s.a, fix |-> fix, borrow |-> s.b]

\* mutant of divuStep: the estimate is never corrected
divuStepNoFix(a, y, n, m, k) ==
    LET qk == divuEstimate(a, y, m, k)
    IN  divuSub(divuDq(a, y, n, m, qk), n, m, k, qk, FALSE)

\* if (rem[i+k] < dq[i]) dq[m] = prod(m, dq, y.u.v, --qk); then the subtraction
divuFix(a, y, n, m, k, qk) ==
    IF divuLess(a, n, m, k)
    THEN divuSub(divuDq(a, y, n, m, qk - 1), n, m, k, qk - 1, TRUE)
    ELSE divuSub(a, n, m, k, qk, FALSE)

\* one iteration of for (k = n - m; k >= 0; k--): the digit and the array after it
divuStep(a, y, n, m, k) ==
    LET qk == divuEstimate(a, y, m, k)
    IN  divuFix(divuDq(a, y, n, m, qk), y, n, m, k, qk)

RECURSIVE divuLoop(_, _, _, _, _, _)
divuLoop(a, t, y, n, m, k) ==
    IF k >= 0
    THEN LET st == divuStep(a, y, n, m, k)
         IN  divuLoop(st.a, [t EXCEPT ![k] = st.qk], y, n, m, k - 1)
    ELSE [a |-> a, t |-> t]

\* the end of the long division: the remainder's m digits or the quotient's
\* n - m + 1, zeros above them
divuResult(r, n, m, mod) ==
    [t   |-> [i \in Idx |-> IF i >= (IF mod # 0 THEN m ELSE n - m + 1) THEN 0
                            ELSE IF mod # 0 THEN r.a[i] ELSE r.t[i]],
     tmp |-> r.a]

\* mutant of divuLong: rem[n] = 0 is left out
divuLongStale(tmp, x, y, n, m, mod) ==
    divuResult(divuLoop([i \in TmpIdx |-> IF i < n THEN x[i] ELSE tmp[i]],
                        Zero, y, n, m, n - m),
               n, m, mod)

\* the long division: memcpy(rem, x.u.v, n); rem[n] = 0; the loop and the result
divuLong(tmp, x, y, n, m, mod) ==
    divuResult(divuLoop([i \in TmpIdx |-> IF i < n THEN x[i]
                                          ELSE IF i = n THEN 0 ELSE tmp[i]],
                        Zero, y, n, m, n - m),
               n, m, mod)

\* mutant of divuLens: a zero divisor gives the dividend back
divuLensZeroKeeps(tmp, x, y, n, m, mod) ==
    IF m = 1 /\ y[0] = 0
    THEN [t |-> x, tmp |-> tmp]
    ELSE IF m = 1 THEN [t |-> quot(x, y[0], mod), tmp |-> tmp]
    ELSE IF m > n THEN [t |-> IF mod # 0 THEN x ELSE Zero, tmp |-> tmp]
    ELSE divuLong(tmp, x, y, n, m, mod)

\* n = len(x); m = len(y); and the three branches on them
divuLens(tmp, x, y, n, m, mod) ==
    IF m = 1
    THEN IF y[0] = 0
         THEN [t |-> Zero, tmp |-> tmp]
         ELSE [t |-> quot(x, y[0], mod), tmp |-> tmp]
    ELSE IF m > n
    THEN [t |-> IF mod # 0 THEN x ELSE Zero, tmp |-> tmp]
    ELSE divuLong(tmp, x, y, n, m, mod)

divuRun(tmp, x, y, mod) == divuLens(tmp, x, y, len(x), len(y), mod)

\* the value dwa_divu() returns; no cell of tmp is read before the call writes it
dwa_divu(x, y, mod) == divuRun([i \in TmpIdx |-> 0], x, y, mod).t

\* if (sx) x = dwa_neg(x);
divAbs(x) == IF sign(x) # 0 THEN dwa_neg(x) ELSE x

\* return (...)? dwa_neg(t): t, with the scratch array of the dwa_divu() called
divSigned(c, negate) ==
    [t |-> IF negate THEN dwa_neg(c.t) ELSE c.t, tmp |-> c.tmp]

\* mutant of divRun: the remainder takes the sign of the divisor
divRunDivisorSign(tmp, x, y, mod) ==
    divSigned(divuRun(tmp, divAbs(x), divAbs(y), mod),
              (mod = 0 /\ sign(x) # sign(y)) \/ (mod # 0 /\ sign(y) # 0))

\* dwa_div() with the scratch array of the dwa_divu() it calls
divRun(tmp, x, y, mod) ==
    divSigned(divuRun(tmp, divAbs(x), divAbs(y), mod),
              (mod = 0 /\ sign(x) # sign(y)) \/ (mod # 0 /\ sign(x) # 0))

dwa_div(x, y, mod) == divRun([i \in TmpIdx |-> 0], x, y, mod).t

(***************************************************************************)
(* bit-wise.  The shift amount is an int: n/8 and n%8 are C's division,    *)
(* which rounds toward zero, here by the digit's DigitBits bits.  An index *)
(* outside 0 .. SIZE-1 is outside the array: Cell reads g there, a digit   *)
(* the call does not control, Store leaves the array alone, and the loops  *)
(* keep in oob whether such an index was used.                             *)
(***************************************************************************)
CDiv(a, b) == IF a >= 0 THEN a \div b ELSE 0 - ((0 - a) \div b)

CRem(a, b) == a - b * CDiv(a, b)

\* x.u.v[i]
Cell(x, i, g) == IF i \in Idx THEN x[i] ELSE g

\* t.u.v[j] = d
Store(t, j, d) == IF j \in Idx THEN [t EXCEPT ![j] = d] ELSE t

\* ~x.u.v[i] as an unsigned char
bcomDigit(d) == BASE - 1 - d

\* dwa_bcom()
dwa_bcom(x) == [i \in Idx |-> bcomDigit(x[i])]

\* for (; j >= lim; j--) t.u.v[j] = d;
RECURSIVE lshFill(_, _, _, _)
lshFill(t, j, lim, oob) ==
    IF j >= lim
    THEN lshFill(Store(t, j, 0), j - 1, lim, oob \/ j \notin Idx)
    ELSE [t |-> t, j |-> j, oob |-> oob]

\* for (; i >= 0; i--, j--) t.u.v[j] = x.u.v[i];
RECURSIVE lshCopy(_, _, _, _, _, _)
lshCopy(t, x, i, j, g, oob) ==
    IF i >= 0
    THEN lshCopy(Store(t, j, Cell(x, i, g)), x, i - 1, j - 1, g,
                 oob \/ i \notin Idx \/ j \notin Idx)
    ELSE [t |-> t, j |-> j, oob |-> oob]

\* mutant of lshBits: the shift within a digit is left out
lshBitsNone(t, n) == t

\* n %= 8; if (n > 0) prod(SIZE, t.u.v, t.u.v, 1 << n);
lshBits(t, n) == IF n > 0 THEN prod(SIZE, t, 0, t, 2 ^ n).a ELSE t

\* mutant of lshLow: the vacated low digits are not set to zero
lshLowNone(s) == s

\* the three loops of dwa_lsh(), each from where the one before stopped
lshLow(s) == lshFill(s.t, s.j, 0, s.oob)

lshMiddle(s, x, i, g) == lshLow(lshCopy(s.t, x, i, s.j, g, s.oob))

\* dwa_t t; is not initialized: its digits are g before the loops store into it
lshLoops(x, d, g) ==
    lshMiddle(lshFill([i \in Idx |-> g], SIZE - 1, SIZE + d, FALSE), x, SIZE - d - 1, g)

lshEnd(s, n) == [t |-> lshBits(s.t, n), oob |-> s.oob]

\* dwa_lsh(x, n): the value returned and whether an index left the array
lshRun(x, n, g) == lshEnd(lshLoops(x, CDiv(n, DigitBits), g), CRem(n, DigitBits))

dwa_lsh(x, n) == lshRun(x, n, 0).t

\* for (i = n / 8; i < SIZE && j < SIZE; i++, j++) t.u.v[j] = x.u.v[i];
RECURSIVE rshCopy(_, _, _, _, _, _)
rshCopy(t, x, i, j, g, oob) ==
    IF i < SIZE /\ j < SIZE
    THEN rshCopy(Store(t, j, Cell(x, i, g)), x, i + 1, j + 1, g,
                 oob \/ i \notin Idx \/ j \notin Idx)
    ELSE [t |-> t, j |-> j, oob |-> oob]

\* for (; j < SIZE; j++) t.u.v[j] = fill;
RECURSIVE rshFill(_, _, _)
rshFill(t, j, fill) ==
    IF j < SIZE THEN rshFill(Store(t, j, fill), j + 1, fill) ELSE t

rshHigh(s, fill) == [t |-> rshFill(s.t, s.j, fill), oob |-> s.oob]

rshLoops(x, d, fill, g) == rshHigh(rshCopy(Zero, x, d, 0, g, FALSE), fill)

\* n %= 8; if (n > 0) t = quot(t, 1 << n, 0);
rshlBits(t, n) == IF n > 0 THEN quot(t, 2 ^ n, 0) ELSE t

rshlEnd(s, n) == [t |-> rshlBits(s.t, n), oob |-> s.oob]

\* dwa_rshl(x, n): the value returned and whether an index left the array
rshlRun(x, n, g) == rshlEnd(rshLoops(x, CDiv(n, DigitBits), 0, g), CRem(n, DigitBits))

dwa_rshl(x, n) == rshlRun(x, n, 0).t

\* mutant of rshaTop: the sign bits are not put back into the top digit
rshaTopNone(t, n, fill) == t

\* t.u.v[SIZE-1] |= fill << (8-n), the top digit having its high n bits clear
rshaTop(t, n, fill) ==
    [t EXCEPT ![SIZE - 1] = t[SIZE - 1] + ((fill * 2 ^ (DigitBits - n)) % BASE)]

\* n %= 8; if (n > 0) { t = quot(t, 1 << n, 0); t.u.v[SIZE-1] |= fill << (8-n); }
rshaBits(t, n, fill) == IF n > 0 THEN rshaTop(quot(t, 2 ^ n, 0), n, fill) ELSE t

rshaEnd(s, n, fill) == [t |-> rshaBits(s.t, n, fill), oob |-> s.oob]

\* unsigned fill = (sign(x))? 0xff: 0;
rshaFillOf(x) == IF sign(x) # 0 THEN BASE - 1 ELSE 0

\* dwa_rsha(x, n): the value returned and whether an index left the array
rshaRun(x, n, g) ==
    rshaEnd(rshLoops(x, CDiv(n, DigitBits), rshaFillOf(x), g),
            CRem(n, DigitBits), rshaFillOf(x))

dwa_rsha(x, n) == rshaRun(x, n, 0).t

\* one bit of x.u.v[i] & y.u.v[i] (op 0), ^ (op 1) or | (op 2)
bitOf(a, b, op) ==
    IF op = 0 THEN a * b ELSE IF op = 1 THEN (a + b) % 2 ELSE a + b - a * b

\* the k low bits of the two digits combined
RECURSIVE bitDigit(_, _, _, _)
bitDigit(a, b, op, k) ==
    IF k = 0 THEN 0
    ELSE 2 * bitDigit(a \div 2, b \div 2, op, k - 1) + bitOf(a % 2, b % 2, op)

\* mutant of bitAsserts: the default case asserts nothing
bitAssertsNever(op) == FALSE

\* default: assert(!"invalid bit-wise operation code");
bitAsserts(op) == op \notin {0, 1, 2}

\* dwa_bit() for an operation code the switch has a case for
dwa_bit(x, y, op) == [i \in Idx |-> bitDigit(x[i], y[i], op, DigitBits)]

(***************************************************************************)
(* comparison                                                              *)
(***************************************************************************)
\* while (i > 0 && x.u.v[i] == y.u.v[i]) i--;
RECURSIVE cmpuLoop(_, _, _)
cmpuLoop(x, y, i) == IF i > 0 /\ x[i] = y[i] THEN cmpuLoop(x, y, i - 1) ELSE i

\* return x.u.v[i] - y.u.v[i];
cmpuDiff(x, y, i) == x[i] - y[i]

dwa_cmpu(x, y) == cmpuDiff(x, y, cmpuLoop(x, y, SIZE - 1))

\* mutant of dwa_cmp: the signs are not looked at
dwa_cmpNoSign(x, y) == dwa_cmpu(x, y)

dwa_cmp(x, y) == IF sign(x) # sign(y) THEN sign(y) - sign(x) ELSE dwa_cmpu(x, y)

(***************************************************************************)
(* conversion from floating-point, for a long double v that is a whole     *)
(* number: v /= BASE then leaves a value whose whole part is the integer   *)
(* quotient, v >= 1.0 tests that part, and fmodl(v, BASE) stored into an   *)
(* unsigned char keeps its remainder.                                      *)
(***************************************************************************)
\* for (i = 0; i < SIZE && v >= 1.0; i++) { t.u.v[i] = fmodl(v, BASE); v /= BASE; }
RECURSIVE fromfpLoop(_, _, _)
fromfpLoop(t, v, i) ==
    IF i < SIZE /\ v >= 1
    THEN fromfpLoop([t EXCEPT ![i] = v % BASE], v \div BASE, i + 1)
    ELSE [t |-> t, v |-> v]

\* if (v >= 1.0) { overflow } else return (s)? dwa_neg(t): t;
fromfpEnd(l, s) ==
    IF l.v >= 1
    THEN IF s # 0
         THEN [i \in Idx |-> IF i = SIZE - 1 THEN BASE \div 2 ELSE 0]
         ELSE [i \in Idx |-> BASE - 1]
    ELSE IF s # 0 THEN dwa_neg(l.t) ELSE l.t

dwa_fromfp(v) ==
    IF v < 0 THEN fromfpEnd(fromfpLoop(Zero, 0 - v, 0), 1)
             ELSE fromfpEnd(fromfpLoop(Zero, v, 0), 0)

(***************************************************************************)
(* conversion from and to string.  A character is a string of length one;  *)
(* NUL is the terminator.  A char * is a sequence of characters and an     *)
(* offset into it counted from 0; reading past the sequence reads NUL.     *)
(***************************************************************************)
map ==
    << "0", "1", "2", "3", "4", "5", "6", "7", "8", "9", "a", "b", "c", "d", "e",
       "f", "g", "h", "i", "j", "k", "l", "m", "n", "o", "p", "q", "r", "s", "t",
       "u", "v", "w", "x", "y", "z" >>

UpperCase ==
    << "A", "B", "C", "D", "E", "F", "G", "H", "I", "J", "K", "L", "M", "N", "O",
       "P", "Q", "R", "S", "T", "U", "V", "W", "X", "Y", "Z" >>

NUL == ""

\* <ctype.h> in the C locale (the vertical tab cannot be written here)
isspace(c) == c \in {" ", "\t", "\n", "\f", "\r"}

tolower(c) ==
    IF \E i \in DOMAIN UpperCase : UpperCase[i] = c
    THEN map[10 + (CHOOSE i \in DOMAIN UpperCase : UpperCase[i] = c)]
    ELSE c

isxdigit(c) == \E i \in 1 .. 16 : map[i] = tolower(c)

\* strchr(map, c) - map; Len(map) for the terminator, which strchr() finds;
\* Len(map) + 1 stands for the null pointer
strchrMap(c) ==
    IF c = NUL THEN Len(map)
    ELSE IF \E i \in DOMAIN map : map[i] = c
    THEN (CHOOSE i \in DOMAIN map : map[i] = c) - 1
    ELSE Len(map) + 1

\* p[i]
At(s, p) == IF p >= 0 /\ p < Len(s) THEN s[p + 1] ELSE NUL

\* p[i] = c; a store outside the array leaves the array alone
Put(s, p, c) == [s EXCEPT ![p + 1] = c]

\* #define DWA_BUFSIZE (1 + sizeof(((dwa_t *)0)->u.v)*8 + 1)
DWA_BUFSIZE == 1 + SIZE * DigitBits + 1

\* for (j = 0; j < --i; j++) swap p[j], p[i]
RECURSIVE tostruReverse(_, _, _, _)
tostruReverse(b, off, j, i) ==
    IF j < i - 1
    THEN LET c  == At(b, off + j)
             b1 == Put(b, off + j, At(b, off + i - 1))
         IN  tostruReverse(Put(b1, off + i - 1, c), off, j + 1, i - 1)
    ELSE b

\* mutant of tostruReverse: the digits stay least significant first
tostruNoReverse(b, off, i) == Put(b, off + i, NUL)

\* p[i] = '\0'; and the reversal
tostruFinish(b, off, i) == tostruReverse(Put(b, off + i, NUL), off, 0, i)

\* do { ... } while(j > 1 || x.u.v[0] != 0);
RECURSIVE tostruLoop(_, _, _, _, _, _)
tostruLoop(b, off, x, base, i, j) ==
    LET rd == dwa_touint(quot(x, base, 1))
        x1 == quot(x, base, 0)
        b1 == Put(b, off + i, map[rd + 1])
        j1 == lenLoop(x1, j)
    IN  IF j1 > 1 \/ x1[0] # 0
        THEN tostruLoop(b1, off, x1, base, i + 1, j1)
        ELSE tostruFinish(b1, off, i + 1)

\* dwa_tostru(s, x, base) with s = b + off: the buffer after the call
dwa_tostru(b, off, x, base) == tostruLoop(b, off, x, base, 0, SIZE)

\* mutant of dwa_tostr: the sign is not looked at
dwa_tostrNoSign(b, x, base) == dwa_tostru(Put(b, 0, "-"), 0, x, base)

\* dwa_tostr(s, x, base) with s = b, a buffer of the caller
dwa_tostr(b, x, base) ==
    LET b1 == Put(b, 0, "-")
    IN  IF sign(x) # 0 THEN dwa_tostru(b1, 1, dwa_neg(x), base)
                       ELSE dwa_tostru(b1, 0, x, base)

\* #define hprefix()
hprefix(s, p) ==
    /\ At(s, p) = "0"
    /\ At(s, p + 1) \in {"x", "X"}
    /\ isxdigit(At(s, p + 2))

\* #define valid()
valid(s, p, base) ==
    LET qi == strchrMap(tolower(At(s, p)))
    IN  qi # Len(map) + 1 /\ qi < base

\* while (isspace(*p)) p++;
RECURSIVE fromstrSpaces(_, _)
fromstrSpaces(s, p) == IF isspace(At(s, p)) THEN fromstrSpaces(s, p + 1) ELSE p

\* mutant of fromstrScan: with base 0 a leading 0 does not select radix 8
fromstrScanDecimal(str, base) ==
    LET p0  == fromstrSpaces(str, 0)
        neg == IF At(str, p0) = "-" THEN 1 ELSE 0
        p1  == IF At(str, p0) \in {"-", "+"} THEN p0 + 1 ELSE p0
        hp  == hprefix(str, p1)
    IN  IF base = 0
        THEN IF hp THEN [s |-> neg, p |-> p1 + 2, base |-> 16]
             ELSE [s |-> neg, p |-> p1, base |-> 10]
        ELSE IF base = 16 /\ hp THEN [s |-> neg, p |-> p1 + 2, base |-> base]
        ELSE [s |-> neg, p |-> p1, base |-> base]

\* the sign, the radix and the prefix: where the digits start
fromstrScan(str, base) ==
    LET p0  == fromstrSpaces(str, 0)
        neg == IF At(str, p0) = "-" THEN 1 ELSE 0
        p1  == IF At(str, p0) \in {"-", "+"} THEN p0 + 1 ELSE p0
        hp  == hprefix(str, p1)
    IN  IF base = 0
        THEN IF At(str, p1) # "0" THEN [s |-> neg, p |-> p1, base |-> 10]
             ELSE IF hp THEN [s |-> neg, p |-> p1 + 2, base |-> 16]
             ELSE [s |-> neg, p |-> p1, base |-> 8]
        ELSE IF base = 16 /\ hp THEN [s |-> neg, p |-> p1 + 2, base |-> base]
        ELSE [s |-> neg, p |-> p1, base |-> base]

\* mutant of fromstrDigits: on overflow t keeps the value it had before prod()
RECURSIVE fromstrDigitsKeep(_, _, _, _)
fromstrDigitsKeep(str, base, t, p) ==
    LET pr == prod(SIZE, t, 0, t, base)
        t1 == dwa_add(pr.a, dwa_fromuint(strchrMap(tolower(At(str, p)))))
    IN  IF pr.c > 0 THEN [t |-> t, p |-> p]
        ELSE IF valid(str, p + 1, base) THEN fromstrDigitsKeep(str, base, t1, p + 1)
        ELSE [t |-> t1, p |-> p + 1]

\* do { ... } while(valid()); entered with *p valid
RECURSIVE fromstrDigits(_, _, _, _)
fromstrDigits(str, base, t, p) ==
    LET pr == prod(SIZE, t, 0, t, base)
        t1 == dwa_add(pr.a, dwa_fromuint(strchrMap(tolower(At(str, p)))))
    IN  IF pr.c > 0 THEN [t |-> pr.a, p |-> p]
        ELSE IF valid(str, p + 1, base) THEN fromstrDigits(str, base, t1, p + 1)
        ELSE [t |-> t1, p |-> p + 1]

\* mutant of dwa_fromstr: p is not reset when no digit is found
dwa_fromstrNoReset(str, base) ==
    LET sc == fromstrScan(str, base)
        d  == IF valid(str, sc.p, sc.base)
              THEN fromstrDigits(str, sc.base, Zero, sc.p)
              ELSE [t |-> Zero, p |-> sc.p]
    IN  [t |-> IF sc.s # 0 THEN dwa_neg(d.t) ELSE d.t, end |-> d.p]

\* mutant of dwa_fromstr: the sign is skipped but not applied
dwa_fromstrUnsigned(str, base) ==
    LET sc == fromstrScan(str, base)
        d  == IF valid(str, sc.p, sc.base)
              THEN fromstrDigits(str, sc.base, Zero, sc.p)
              ELSE [t |-> Zero, p |-> 0]
    IN  [t |-> d.t, end |-> d.p]

\* dwa_fromstr(str, base, &end): the value returned and the offset of *end
dwa_fromstr(str, base) ==
    LET sc == fromstrScan(str, base)
        d  == IF valid(str, sc.p, sc.base)
              THEN fromstrDigits(str, sc.base, Zero, sc.p)
              ELSE [t |-> Zero, p |-> 0]
    IN  [t |-> IF sc.s # 0 THEN dwa_neg(d.t) ELSE d.t, end |-> d.p]

\* assert(base >= 2 && base <= 36); fails
tostruAsserts(base) == ~(base >= 2 /\ base <= 36)

\* assert(base == 0 || (base >= 2 && base <= 36)); fails
fromstrAsserts(base) == ~(base = 0 \/ (base >= 2 /\ base <= 36))

(***************************************************************************)
(* Reference values: the unsigned and the two's-complement reading of a    *)
(* digit array, as integers.                                               *)
(***************************************************************************)
\* 2^(8*SIZE) of the claims: the number of values of a double word
Modulus == BASE ^ SIZE

RECURSIVE ValFrom(_, _)
ValFrom(x, i) == IF i < SIZE THEN x[i] + BASE * ValFrom(x, i + 1) ELSE 0

Val(x) == ValFrom(x, 0)

SVal(x) == IF Val(x) >= Modulus \div 2 THEN Val(x) - Modulus ELSE Val(x)

\* the digit array of an integer 0 <= n < Modulus
Dwa(n) == [i \in Idx |-> (n \div (BASE ^ i)) % BASE]

(***************************************************************************)
(* Inputs.  Operands are the digit arrays over the digits of DigitSamples: *)
(* zero, one, the sign bit and the largest digit.  Divisors are those      *)
(* whose digits below the top one are 0, 1 or BASE - 1.                    *)
(***************************************************************************)
DigitSamples == {0, 1, BASE \div 2, BASE - 1}

Operands == [Idx -> DigitSamples]

Divisors == {d \in Operands : \A i \in 0 .. (SIZE - 2) : d[i] # BASE \div 2}

TmpInit == [i \in TmpIdx |-> 0]

\* a few values to add: 0, 1, BASE - 1, the largest, the smallest and the
\* largest signed value
AddSamples ==
    { Zero, [Zero EXCEPT ![0] = 1], [Zero EXCEPT ![0] = BASE - 1],
      [i \in Idx |-> BASE - 1], [Zero EXCEPT ![SIZE - 1] = BASE \div 2],
      [i \in Idx |-> IF i = SIZE - 1 THEN BASE \div 2 - 1 ELSE BASE - 1] }

\* the native words: every long and every unsigned long
Natives == LONG_MIN .. (ULongMod - 1)

VARIABLES pc, x, y, z, t, q, r, tmp, v, nv, base, str, endp, arg, raised, oob, calls, bufs,
          steps

vars ==
    <<pc, x, y, z, t, q, r, tmp, v, nv, base, str, endp, arg, raised, oob, calls, bufs,
      steps>>

args == <<x, y, z>>

natives == <<v, nv>>

strings == <<base, str, endp>>

\* an int argument (a shift amount or an operation code), whether
\* assert_exceptfail was raised and whether an index left its array
faults == <<arg, raised, oob>>

\* the calls in progress when several callers run at once, the character
\* arrays they write (the callers' own and the functions' static ones) and
\* the number of loop iterations the calls in progress have made
threads == <<calls, bufs, steps>>

\* static char buf[SIZE*8 + 1], in dwa_tostru() and in dwa_tostr(): zeros at
\* the start of the program
StaticBuffer == [i \in 1 .. (SIZE * DigitBits + 1) |-> NUL]

\* a buffer of DWA_BUFSIZE characters that has not been written: no
\* character of it is a NUL
FreshBuffer == [i \in 1 .. DWA_BUFSIZE |-> "?"]

\* the arrays by name: one of each caller, and the two static ones
Storage ==
    [b \in {"own1", "own2", "ubuf", "sbuf"} |->
        IF b \in {"ubuf", "sbuf"} THEN StaticBuffer ELSE FreshBuffer]

\* the state before any call, but for the arguments
Fresh ==
    /\ pc = "start"
    /\ t = Zero
    /\ q = Zero
    /\ r = Zero
    /\ tmp = TmpInit
    /\ nv = 0
    /\ endp = 0
    /\ arg = 0
    /\ raised = FALSE
    /\ oob = FALSE
    /\ calls = <<>>
    /\ bufs = Storage
    /\ steps = 0

(***************************************************************************)
(* Spec: a caller divides x by y (quotient, then remainder) and puts the   *)
(* dividend together again, as the test of dwa.c does.                     *)
(***************************************************************************)
Init ==
    /\ Fresh
    /\ x \in Operands
    /\ y \in Divisors
    /\ z = Zero
    /\ v = 0
    /\ base = 10
    /\ str = <<>>

\* q = dwa_divu(x, y, 0)
DivuQuot ==
    /\ pc = "start"
    /\ \E c \in {divuRun(tmp, x, y, 0)} : q' = c.t /\ tmp' = c.tmp
    /\ pc' = "divu_q"
    /\ UNCHANGED <<args, t, r, natives, strings, faults, threads>>

\* r = dwa_divu(x, y, 1)
DivuRem ==
    /\ pc = "divu_q"
    /\ \E c \in {divuRun(tmp, x, y, 1)} : r' = c.t /\ tmp' = c.tmp
    /\ pc' = "divu_r"
    /\ UNCHANGED <<args, t, q, natives, strings, faults, threads>>

\* t = dwa_addu(dwa_mulu(q, y), r)
Recompose ==
    /\ pc = "divu_r"
    /\ t' = dwa_addu(dwa_mulu(q, y), r)
    /\ pc' = "recomposed"
    /\ UNCHANGED <<args, q, r, tmp, natives, strings, faults, threads>>

Next == DivuQuot \/ DivuRem \/ Recompose

Spec == Init /\ [][Next]_vars

(***************************************************************************)
(* SpecSigned: a caller divides x by y as two's-complement integers.       *)
(***************************************************************************)
\* q = dwa_div(x, y, 0)
DivQuot ==
    /\ pc = "start"
    /\ \E c \in {divRun(tmp, x, y, 0)} : q' = c.t /\ tmp' = c.tmp
    /\ pc' = "div_q"
    /\ UNCHANGED <<args, t, r, natives, strings, faults, threads>>

\* r = dwa_div(x, y, 1)
DivRem ==
    /\ pc = "div_q"
    /\ \E c \in {divRun(tmp, x, y, 1)} : r' = c.t /\ tmp' = c.tmp
    /\ pc' = "div_r"
    /\ UNCHANGED <<args, t, q, natives, strings, faults, threads>>

NextSigned == DivQuot \/ DivRem

SpecSigned == Init /\ [][NextSigned]_vars

(***************************************************************************)
(* SpecMul: a caller multiplies x by y.                                    *)
(***************************************************************************)
\* t = dwa_mulu(x, y)
Mulu ==
    /\ pc = "start"
    /\ t' = dwa_mulu(x, y)
    /\ pc' = "mulu"
    /\ UNCHANGED <<args, q, r, tmp, natives, strings, faults, threads>>

\* t = dwa_mul(x, y)
Mul ==
    /\ pc = "start"
    /\ t' = dwa_mul(x, y)
    /\ pc' = "mul"
    /\ UNCHANGED <<args, q, r, tmp, natives, strings, faults, threads>>

NextMul == Mulu \/ Mul

SpecMul == Init /\ [][NextMul]_vars

(***************************************************************************)
(* SpecAdd: a caller adds x and y, then z on either side, and adds x to    *)
(* its own negation.                                                       *)
(***************************************************************************)
InitAdd ==
    /\ Fresh
    /\ x \in Operands
    /\ y \in AddSamples
    /\ z \in AddSamples
    /\ v = 0
    /\ base = 10
    /\ str = <<>>

\* t = dwa_addu(x, y)
Addu ==
    /\ pc = "start"
    /\ t' = dwa_addu(x, y)
    /\ pc' = "addu"
    /\ UNCHANGED <<args, q, r, tmp, natives, strings, faults, threads>>

\* q = dwa_addu(t, z); r = dwa_addu(x, dwa_addu(y, z))
AdduBothWays ==
    /\ pc = "addu"
    /\ q' = dwa_addu(t, z)
    /\ r' = dwa_addu(x, dwa_addu(y, z))
    /\ pc' = "addu3"
    /\ UNCHANGED <<args, t, tmp, natives, strings, faults, threads>>

\* t = dwa_neg(x)
Neg ==
    /\ pc = "start"
    /\ t' = dwa_neg(x)
    /\ pc' = "neg"
    /\ UNCHANGED <<args, q, r, tmp, natives, strings, faults, threads>>

\* q = dwa_addu(x, t) with t the negation of x
AdduNeg ==
    /\ pc = "neg"
    /\ q' = dwa_addu(x, t)
    /\ pc' = "addu_neg"
    /\ UNCHANGED <<args, t, r, tmp, natives, strings, faults, threads>>

NextAdd == Addu \/ AdduBothWays \/ Neg \/ AdduNeg

SpecAdd == InitAdd /\ [][NextAdd]_vars

(***************************************************************************)
(* SpecNative: a caller converts a native word to a double word and back.  *)
(***************************************************************************)
InitNative ==
    /\ Fresh
    /\ x = Zero
    /\ y = Zero
    /\ z = Zero
    /\ v \in Natives
    /\ base = 10
    /\ str = <<>>

\* t = dwa_fromint(v), v a long
FromInt ==
    /\ pc = "start"
    /\ v <= LONG_MAX
    /\ t' = dwa_fromint(v)
    /\ pc' = "fromint"
    /\ UNCHANGED <<args, q, r, tmp, natives, strings, faults, threads>>

\* nv = dwa_toint(t)
ToInt ==
    /\ pc = "fromint"
    /\ nv' = dwa_toint(t)
    /\ pc' = "toint"
    /\ UNCHANGED <<args, t, q, r, tmp, v, strings, faults, threads>>

\* t = dwa_fromuint(v), v an unsigned long
FromUint ==
    /\ pc = "start"
    /\ v >= 0
    /\ t' = dwa_fromuint(v)
    /\ pc' = "fromuint"
    /\ UNCHANGED <<args, q, r, tmp, natives, strings, faults, threads>>

\* nv = dwa_touint(t)
ToUint ==
    /\ pc = "fromuint"
    /\ nv' = dwa_touint(t)
    /\ pc' = "touint"
    /\ UNCHANGED <<args, t, q, r, tmp, v, strings, faults, threads>>

NextNative == FromInt \/ ToInt \/ FromUint \/ ToUint

SpecNative == InitNative /\ [][NextNative]_vars

(***************************************************************************)
(* SpecStr: a caller prints x in a radix into its own buffer of            *)
(* DWA_BUFSIZE characters and parses the text back in the same radix.      *)
(***************************************************************************)
Radixes == 2 .. 36

InitStr ==
    /\ Fresh
    /\ x \in Operands
    /\ y = Zero
    /\ z = Zero
    /\ v = 0
    /\ base \in Radixes
    /\ str = FreshBuffer

\* dwa_tostr(str, x, base)
ToStr ==
    /\ pc = "start"
    /\ str' = dwa_tostr(str, x, base)
    /\ pc' = "tostr"
    /\ UNCHANGED <<args, t, q, r, tmp, natives, base, endp, faults, threads>>

\* t = dwa_fromstr(str, base, &endp) on the text just printed
ParseBack ==
    /\ pc = "tostr"
    /\ LET c == dwa_fromstr(str, base)
       IN  t' = c.t /\ endp' = c.end
    /\ pc' = "parsed_back"
    /\ UNCHANGED <<args, q, r, tmp, natives, base, str, faults, threads>>

NextStr == ToStr \/ ParseBack

SpecStr == InitStr /\ [][NextStr]_vars

(***************************************************************************)
(* SpecParse: a caller parses a text.  The texts are: optional white       *)
(* space, an optional sign, a body and an optional character that is no    *)
(* digit.  The bodies are short texts with and without the 0x prefix and   *)
(* the numerals around the largest value, in the radix.                    *)
(***************************************************************************)
\* the numeral of n >= 0 in radix b, most significant digit first
RECURSIVE Numeral(_, _)
Numeral(n, b) ==
    IF n < b THEN <<map[n + 1]>>
    ELSE Numeral(n \div b, b) \o <<map[(n % b) + 1]>>

\* the numerals of the values around (Modulus - 1) / b, one digit appended:
\* the values around Modulus - 1, on both sides of it
BoundaryRuns(b) ==
    LET qmax == (Modulus - 1) \div b
        last == (Modulus - 1) % b
    IN  { Numeral(n, b) \o <<map[d + 1]>> :
            n \in {qmax - 1, qmax, qmax + 1},
            d \in {0, last, IF last + 1 < b THEN last + 1 ELSE last, b - 1} }

ShortBodies ==
    { <<>>, <<"0">>, <<"z">>, <<"7">>, <<"0", "8">>, <<"1", "0", "1", "2">>,
      <<"F", "f">>, <<"Z", "z">>,
      <<"0", "x">>, <<"0", "X">>, <<"0", "x", "z">>, <<"0", "x", "f">>,
      <<"0", "X", "1", "F">> }

Bodies(b) ==
    ShortBodies
      \cup (IF b = 0
            THEN BoundaryRuns(10)
                   \cup {<<"0">> \o run : run \in BoundaryRuns(8)}
                   \cup {<<"0", "x">> \o run : run \in BoundaryRuns(16)}
            ELSE BoundaryRuns(b) \cup {run \o <<"0">> : run \in BoundaryRuns(b)})

Leads == {<<>>, <<" ">>, <<"\t", " ">>}

Signs == {<<>>, <<"-">>, <<"+">>}

Tails == {<<>>, <<"!">>}

Texts(b) ==
    { ld \o sg \o bd \o tl : ld \in Leads, sg \in Signs, bd \in Bodies(b), tl \in Tails }

InitParse ==
    /\ Fresh
    /\ x = Zero
    /\ y = Zero
    /\ z = Zero
    /\ v = 0
    /\ base \in {0} \cup Radixes
    /\ str \in Texts(base)

\* t = dwa_fromstr(str, base, &endp)
FromStr ==
    /\ pc = "start"
    /\ LET c == dwa_fromstr(str, base)
       IN  t' = c.t /\ endp' = c.end
    /\ pc' = "fromstr"
    /\ UNCHANGED <<args, q, r, tmp, natives, base, str, faults, threads>>

NextParse == FromStr

SpecParse == InitParse /\ [][NextParse]_vars

(***************************************************************************)
(* Reference arithmetic on integers.                                       *)
(***************************************************************************)
Abs(n) == IF n < 0 THEN 0 - n ELSE n

\* a / b rounded toward zero, b # 0
TruncQuot(a, b) ==
    IF (a < 0) = (b < 0) THEN Abs(a) \div Abs(b) ELSE 0 - (Abs(a) \div Abs(b))

\* (a * b) mod Modulus for 0 <= a, b < Modulus, by doubling: no intermediate
\* value reaches 3 * Modulus
RECURSIVE MulMod(_, _)
MulMod(a, b) ==
    IF b = 0 THEN 0 ELSE (2 * MulMod(a, b \div 2) + (b % 2) * a) % Modulus

\* the smallest signed value: only the sign bit set
MinValue == [Zero EXCEPT ![SIZE - 1] = BASE \div 2]

\* whether the first quotient digit of dwa_divu(x, y, .) was corrected
FirstDigitCorrected ==
    LET n  == len(x)
        m  == len(y)
        a0 == [i \in TmpIdx |-> IF i < n THEN x[i] ELSE 0]
    IN  /\ m >= 2
        /\ n >= m
        /\ q[n - m] = divuEstimate(a0, y, m, n - m) - 1

(***************************************************************************)
(* C1.  Division-remainder identity: for every x and every nonzero y,      *)
(* dwa_addu(dwa_mulu(dwa_divu(x, y, 0), y), dwa_divu(x, y, 1)) is x.       *)
(***************************************************************************)
DivRemIdentity == (pc = "recomposed" /\ y # Zero) => t = x

\* a multi-digit division with a nonzero remainder was put together again
DivRemIdentityWitness ==
    /\ pc = "recomposed"
    /\ len(y) >= 2
    /\ len(x) > len(y)
    /\ r # Zero
    /\ q # Zero

(***************************************************************************)
(* C2.  dwa_divu agrees with unsigned integer division: for nonzero y the  *)
(* quotient is floor(x / y) and the remainder is x mod y, smaller than y.  *)
(***************************************************************************)
DivuReference ==
    /\ (pc \in {"divu_q", "divu_r", "recomposed"} /\ y # Zero)
          => Val(q) = Val(x) \div Val(y)
    /\ (pc \in {"divu_r", "recomposed"} /\ y # Zero)
          => (Val(r) = Val(x) % Val(y) /\ Val(r) < Val(y))

\* a multi-digit division whose first quotient digit needed the correction
DivuReferenceWitness ==
    /\ pc = "divu_r"
    /\ FirstDigitCorrected
    /\ len(x) > len(y)
    /\ r # Zero

(***************************************************************************)
(* C3.  dwa_div truncates toward zero: for nonzero y the quotient is x / y *)
(* rounded toward zero, modulo Modulus, and the remainder is x minus y     *)
(* times it; a nonzero remainder has the sign of x, a nonzero quotient is  *)
(* negative exactly when the signs differ, but for the smallest value      *)
(* divided by -1, which gives the smallest value and remainder 0.          *)
(***************************************************************************)
SignedDivTruncates ==
    LET a  == SVal(x)
        b  == SVal(y)
        qt == TruncQuot(a, b)
    IN  /\ (pc \in {"div_q", "div_r"} /\ y # Zero)
              => /\ Val(q) = qt % Modulus
                 /\ (x = MinValue /\ b = 0 - 1) => q = MinValue
                 /\ (q # Zero /\ ~(x = MinValue /\ b = 0 - 1))
                       => ((sign(q) = 1) <=> (sign(x) # sign(y)))
        /\ (pc = "div_r" /\ y # Zero)
              => /\ SVal(r) = a - b * qt
                 /\ r # Zero => sign(r) = sign(x)

\* a negative dividend, a positive multi-digit divisor, nonzero quotient and remainder
SignedDivTruncatesWitness ==
    /\ pc = "div_r"
    /\ sign(x) = 1
    /\ sign(y) = 0
    /\ len(y) >= 2
    /\ q # Zero
    /\ r # Zero

(***************************************************************************)
(* C4.  dwa_mulu wraps: the result is (x * y) mod Modulus, the low SIZE    *)
(* digits of the full product.                                             *)
(***************************************************************************)
MuluWraps == pc = "mulu" => Val(t) = MulMod(Val(x), Val(y))

\* a product whose high half is not zero: both operands have their top bit set
MuluWrapsWitness ==
    /\ pc = "mulu"
    /\ sign(x) = 1
    /\ sign(y) = 1
    /\ t # Zero

(***************************************************************************)
(* C5.  dwa_addu is addition modulo Modulus, hence commutative and         *)
(* associative.                                                            *)
(***************************************************************************)
AdduModular ==
    /\ pc \in {"addu", "addu3"}
          => /\ Val(t) = (Val(x) + Val(y)) % Modulus
             /\ t = dwa_addu(y, x)
    /\ pc = "addu3" => q = r

\* a sum that wrapped, with z added on either side
AdduModularWitness ==
    /\ pc = "addu3"
    /\ Val(x) + Val(y) >= Modulus
    /\ z # Zero
    /\ q # Zero

(***************************************************************************)
(* C6.  Additive inverse: dwa_addu(x, dwa_neg(x)) is zero for every x.     *)
(***************************************************************************)
AdditiveInverse == pc = "addu_neg" => q = Zero

\* the smallest value, whose negation is itself, was added to its negation
AdditiveInverseWitness ==
    /\ pc = "addu_neg"
    /\ x = MinValue
    /\ t = x

(***************************************************************************)
(* C7.  Native round trip: dwa_toint(dwa_fromint(v)) = v for every long v  *)
(* and dwa_touint(dwa_fromuint(v)) = v for every unsigned long v.          *)
(***************************************************************************)
NativeRoundTrip ==
    /\ pc = "toint" => nv = v
    /\ pc = "touint" => nv = v

\* LONG_MIN went to a double word and back
NativeRoundTripWitness ==
    /\ pc = "toint"
    /\ v = LONG_MIN
    /\ sign(t) = 1

(***************************************************************************)
(* Reference reading of a text.                                            *)
(***************************************************************************)
\* the length of the C string s: the offset of its first NUL
CLen(s) ==
    IF \E i \in DOMAIN s : s[i] = NUL
    THEN (CHOOSE i \in DOMAIN s : s[i] = NUL /\ \A k \in 1 .. (i - 1) : s[k] # NUL) - 1
    ELSE Len(s)

\* the value of character c as a digit: 0..35, or 36 if it is none
DigitOf(c) ==
    IF \E i \in DOMAIN map : map[i] = c \/ (i > 10 /\ UpperCase[i - 10] = c)
    THEN (CHOOSE i \in DOMAIN map : map[i] = c \/ (i > 10 /\ UpperCase[i - 10] = c)) - 1
    ELSE 36

\* where the sign, if any, ends: after the leading white space and one + or -
RefSignEnd(s) ==
    LET ws == CHOOSE i \in 0 .. Len(s) :
                  /\ ~isspace(At(s, i))
                  /\ \A k \in 0 .. (i - 1) : isspace(At(s, k))
    IN  IF At(s, ws) \in {"+", "-"} THEN ws + 1 ELSE ws

\* whether the text has a minus sign
RefNegative(s) == RefSignEnd(s) > 0 /\ At(s, RefSignEnd(s) - 1) = "-"

\* a radix prefix: 0x or 0X before a hexadecimal digit, when the radix is 0 or 16
RefPrefixed(s, b) ==
    LET i == RefSignEnd(s)
    IN  /\ b \in {0, 16}
        /\ At(s, i) = "0"
        /\ At(s, i + 1) \in {"x", "X"}
        /\ DigitOf(At(s, i + 2)) < 16

\* where the digits start
RefDigitStart(s, b) == IF RefPrefixed(s, b) THEN RefSignEnd(s) + 2 ELSE RefSignEnd(s)

\* the radix the digits are read in
RefRadix(s, b) ==
    IF b # 0 THEN b
    ELSE IF RefPrefixed(s, b) THEN 16
    ELSE IF At(s, RefSignEnd(s)) = "0" THEN 8 ELSE 10

\* the number of digits of radix b from offset i on
RECURSIVE RefRunLen(_, _, _)
RefRunLen(s, i, b) == IF DigitOf(At(s, i)) < b THEN 1 + RefRunLen(s, i + 1, b) ELSE 0

\* the value of the k digits from offset i on, or Modulus if it exceeds
\* Modulus - 1
RECURSIVE RefRunValue(_, _, _, _)
RefRunValue(s, i, b, k) ==
    IF k = 0 THEN 0
    ELSE LET acc == RefRunValue(s, i, b, k - 1)
             d   == DigitOf(At(s, i + k - 1))
         IN  IF acc >= Modulus \/ acc > (Modulus - 1 - d) \div b
             THEN Modulus
             ELSE acc * b + d

\* the number of leading digits of the run whose value is at most Modulus - 1
RefFitting(s, i, b) ==
    LET n == RefRunLen(s, i, b)
    IN  CHOOSE k \in 0 .. n :
            /\ RefRunValue(s, i, b, k) < Modulus
            /\ (k < n => RefRunValue(s, i, b, k + 1) >= Modulus)

\* the double word of magnitude m under the sign of the text
RefSigned(s, m) == IF RefNegative(s) THEN Dwa((Modulus - m) % Modulus) ELSE Dwa(m)

(***************************************************************************)
(* C8.  String round trip: for every x and every radix in 2..36, parsing   *)
(* the text dwa_tostr printed, in the same radix, gives x and leaves end   *)
(* at the end of the text.                                                 *)
(***************************************************************************)
StringRoundTrip == pc = "parsed_back" => (t = x /\ endp = CLen(str))

\* the smallest value was printed in radix 36, with its sign, and parsed back
StringRoundTripWitness ==
    /\ pc = "parsed_back"
    /\ x = MinValue
    /\ base = 36
    /\ At(str, 0) = "-"
    /\ endp > 2

(***************************************************************************)
(* C9.  dwa_fromstr never accumulates past the largest value: it stops at  *)
(* the first digit that would make acc * base + digit exceed Modulus - 1,  *)
(* end points at that digit, and when the whole run of digits is consumed  *)
(* the magnitude returned is the value of the run.                         *)
(***************************************************************************)
FromStrStopsAtOverflow ==
    pc = "fromstr" =>
        LET i == RefDigitStart(str, base)
            b == RefRadix(str, base)
            n == RefRunLen(str, i, b)
            k == RefFitting(str, i, b)
        IN  n > 0 =>
              /\ endp = i + k
              /\ k = n => t = RefSigned(str, RefRunValue(str, i, b, n))

(***************************************************************************)
(* C10.  Nothing consumed: if, after white space, a sign and a radix       *)
(* prefix, the next character is no digit of the radix, dwa_fromstr        *)
(* returns zero and end is the start of the text.                          *)
(***************************************************************************)
NothingConsumed ==
    pc = "fromstr" =>
        LET i == RefDigitStart(str, base)
            b == RefRadix(str, base)
        IN  DigitOf(At(str, i)) >= b => (t = Zero /\ endp = 0)

\* white space, a sign and no digit, as in the test " +z"
NothingConsumedWitness ==
    /\ pc = "fromstr"
    /\ isspace(At(str, 0))
    /\ At(str, 1) \in {"+", "-"}
    /\ At(str, 2) = "z"
    /\ base = 10
    /\ endp = 0

(***************************************************************************)
(* C11.  Radix detection of dwa_fromstr: with base 0 the digits are read   *)
(* in radix 16 after a 0x or 0X that a hexadecimal digit follows, else in  *)
(* radix 8 after a leading 0, else in radix 10; with base 16 the same      *)
(* prefix is skipped.  A 0x or 0X that no hexadecimal digit follows gives  *)
(* zero with end at the x.  Whenever there is a digit and the value of the *)
(* digits is at most Modulus - 1, the value is that of the digits in the   *)
(* radix and end is at the first character that is no digit of it.         *)
(***************************************************************************)
RadixDetection ==
    pc = "fromstr" =>
        LET s0 == RefSignEnd(str)
            i  == RefDigitStart(str, base)
            b  == RefRadix(str, base)
            n  == RefRunLen(str, i, b)
        IN  /\ (n > 0 /\ RefRunValue(str, i, b, n) < Modulus)
                => /\ endp = i + n
                   /\ t = RefSigned(str, RefRunValue(str, i, b, n))
            /\ (/\ base \in {0, 16}
                /\ At(str, s0) = "0"
                /\ At(str, s0 + 1) \in {"x", "X"}
                /\ DigitOf(At(str, s0 + 2)) >= 16)
                => (t = Zero /\ endp = s0 + 1)

\* with base 0, a text with a sign and the prefix 0X was read in radix 16 up
\* to the character after its digits
RadixDetectionWitness ==
    /\ pc = "fromstr"
    /\ base = 0
    /\ RefPrefixed(str, base)
    /\ At(str, RefSignEnd(str) + 1) = "X"
    /\ RefNegative(str)
    /\ At(str, endp) = "!"
    /\ t = dwa_neg(dwa_fromuint(31))

\* C11 as stated: in every case end is at the first character that is no
\* digit of the radix
EndAtFirstNonDigit ==
    pc = "fromstr" =>
        LET i == RefDigitStart(str, base)
            b == RefRadix(str, base)
        IN  endp = i + RefRunLen(str, i, b)

(***************************************************************************)
(* SpecShift: a caller shifts x by arg bits, arg not negative: to the      *)
(* right and back to the left, as the test of dwa.c does, to the left, or  *)
(* to the right with the sign.                                             *)
(***************************************************************************)
\* 8*SIZE of the claims: the number of bits of a double word
Bits == SIZE * DigitBits

\* the shift amounts: every one below the width, the width and a few above
ShiftAmounts == 0 .. (Bits + DigitBits + 1)

InitShift ==
    /\ Fresh
    /\ x \in Operands
    /\ y = Zero
    /\ z = Zero
    /\ v = 0
    /\ base = 10
    /\ str = <<>>

\* the caller picks the amount
PickAmount ==
    /\ pc = "start"
    /\ \E n \in ShiftAmounts : arg' = n
    /\ pc' = "amount"
    /\ UNCHANGED <<args, t, q, r, tmp, natives, strings, raised, oob, threads>>

\* t = dwa_rshl(x, arg)
Rshl ==
    /\ pc = "amount"
    /\ t' = dwa_rshl(x, arg)
    /\ pc' = "rshl"
    /\ UNCHANGED <<args, q, r, tmp, natives, strings, faults, threads>>

\* q = dwa_lsh(t, arg) with t = dwa_rshl(x, arg)
LshBack ==
    /\ pc = "rshl"
    /\ q' = dwa_lsh(t, arg)
    /\ pc' = "lsh_back"
    /\ UNCHANGED <<args, t, r, tmp, natives, strings, faults, threads>>

\* t = dwa_lsh(x, arg)
Lsh ==
    /\ pc = "amount"
    /\ t' = dwa_lsh(x, arg)
    /\ pc' = "lsh"
    /\ UNCHANGED <<args, q, r, tmp, natives, strings, faults, threads>>

\* t = dwa_rsha(x, arg)
Rsha ==
    /\ pc = "amount"
    /\ t' = dwa_rsha(x, arg)
    /\ pc' = "rsha"
    /\ UNCHANGED <<args, q, r, tmp, natives, strings, faults, threads>>

NextShift == PickAmount \/ Rshl \/ LshBack \/ Lsh \/ Rsha

SpecShift == InitShift /\ [][NextShift]_vars

(***************************************************************************)
(* C12.  Shift identity: for every x and every n with 0 <= n < Bits,       *)
(* dwa_lsh(dwa_rshl(x, n), n) is x with its low n bits cleared and every   *)
(* other bit unchanged.                                                    *)
(***************************************************************************)
ShiftIdentity ==
    (pc = "lsh_back" /\ arg < Bits) => Val(q) = Val(x) - (Val(x) % (2 ^ arg))

\* a shift by a whole digit and a bit cleared bits that were set and left
\* others set
ShiftIdentityWitness ==
    /\ pc = "lsh_back"
    /\ arg = DigitBits + 1
    /\ Val(x) % (2 ^ arg) # 0
    /\ q # Zero
    /\ q # x

(***************************************************************************)
(* SpecCmp: a caller compares x with y, as unsigned and as signed values.  *)
(***************************************************************************)
InitCmp ==
    /\ Fresh
    /\ x \in Operands
    /\ y \in Operands
    /\ z = Zero
    /\ v = 0
    /\ base = 10
    /\ str = <<>>

\* nv = dwa_cmpu(x, y)
Cmpu ==
    /\ pc = "start"
    /\ nv' = dwa_cmpu(x, y)
    /\ pc' = "cmpu"
    /\ UNCHANGED <<args, t, q, r, tmp, v, strings, faults, threads>>

\* nv = dwa_cmp(x, y)
Cmp ==
    /\ pc = "start"
    /\ nv' = dwa_cmp(x, y)
    /\ pc' = "cmp"
    /\ UNCHANGED <<args, t, q, r, tmp, v, strings, faults, threads>>

NextCmp == Cmpu \/ Cmp

SpecCmp == InitCmp /\ [][NextCmp]_vars

\* the sign of an integer: -1, 0 or 1
Signum(a) == IF a < 0 THEN 0 - 1 ELSE IF a > 0 THEN 1 ELSE 0

(***************************************************************************)
(* C13.  Tri-state ordering: dwa_cmpu(x, y) is negative, zero or positive  *)
(* exactly when x is less than, equal to or greater than y as unsigned     *)
(* values, and dwa_cmp(x, y) exactly when it is so as two's-complement     *)
(* values.                                                                 *)
(***************************************************************************)
TriStateOrdering ==
    /\ pc = "cmpu" => Signum(nv) = Signum(Val(x) - Val(y))
    /\ pc = "cmp" => Signum(nv) = Signum(SVal(x) - SVal(y))

\* a negative x was found less than a positive y of smaller unsigned value
TriStateOrderingWitness ==
    /\ pc = "cmp"
    /\ sign(x) = 1
    /\ sign(y) = 0
    /\ Val(x) > Val(y)
    /\ y # Zero
    /\ nv < 0

(***************************************************************************)
(* SpecPrint: a caller prints x in a radix into its own buffer, as an      *)
(* unsigned or as a signed value, or makes a double word of the long v and *)
(* prints that.                                                            *)
(***************************************************************************)
Longs == LONG_MIN .. LONG_MAX

InitPrint ==
    /\ Fresh
    /\ y = Zero
    /\ z = Zero
    /\ str = FreshBuffer
    /\ \/ x \in Operands /\ base \in Radixes /\ v = 0
       \/ x = Zero /\ base = 10 /\ v \in Longs

\* dwa_tostru(str, x, base)
ToStrU ==
    /\ pc = "start"
    /\ str' = dwa_tostru(str, 0, x, base)
    /\ pc' = "tostru"
    /\ UNCHANGED <<args, t, q, r, tmp, natives, base, endp, faults, threads>>

\* dwa_tostr(str, t, base) with t = dwa_fromint(v)
PrintNative ==
    /\ pc = "fromint"
    /\ str' = dwa_tostr(str, t, base)
    /\ pc' = "printed_native"
    /\ UNCHANGED <<args, t, q, r, tmp, natives, base, endp, faults, threads>>

NextPrint == ToStrU \/ ToStr \/ FromInt \/ PrintNative

SpecPrint == InitPrint /\ [][NextPrint]_vars

\* the C string in s: its characters before the first NUL
Text(s) == SubSeq(s, 1, CLen(s))

\* the numeral of the integer n in radix b, with a minus sign if n < 0
SignedNumeral(n, b) ==
    IF n < 0 THEN <<"-">> \o Numeral(0 - n, b) ELSE Numeral(n, b)

(***************************************************************************)
(* C14.  dwa_tostru and dwa_tostr print the exact numeral: dwa_tostru      *)
(* gives the numeral of the unsigned value in the radix, digits 0-9a-z,    *)
(* most significant first, no leading zero, "0" for zero; dwa_tostr gives  *)
(* that of the magnitude after a '-' exactly when the sign bit is set; and *)
(* dwa_tostr(dwa_fromint(v), 10) is the decimal numeral of v.              *)
(***************************************************************************)
ExactNumeral ==
    /\ pc = "tostru" => Text(str) = Numeral(Val(x), base)
    /\ pc = "tostr" => Text(str) = SignedNumeral(SVal(x), base)
    /\ pc = "printed_native" => Text(str) = SignedNumeral(v, base)

\* the smallest value was printed in radix 2: a sign, a one and zeros up to
\* the last character of the buffer before the terminator
ExactNumeralWitness ==
    /\ pc = "tostr"
    /\ x = MinValue
    /\ base = 2
    /\ CLen(str) = Bits + 1
    /\ At(str, 0) = "-"
    /\ At(str, 1) = "1"

(***************************************************************************)
(* SpecNarrow: a caller takes the native word of a double word x that need *)
(* not fit one.                                                            *)
(***************************************************************************)
\* nv = dwa_touint(x)
NarrowU ==
    /\ pc = "start"
    /\ nv' = dwa_touint(x)
    /\ pc' = "narrow_u"
    /\ UNCHANGED <<args, t, q, r, tmp, v, strings, faults, threads>>

\* nv = dwa_toint(x)
NarrowS ==
    /\ pc = "start"
    /\ nv' = dwa_toint(x)
    /\ pc' = "narrow_s"
    /\ UNCHANGED <<args, t, q, r, tmp, v, strings, faults, threads>>

NextNarrow == NarrowU \/ NarrowS

SpecNarrow == InitShift /\ [][NextNarrow]_vars

(***************************************************************************)
(* C15.  Narrowing truncates: dwa_touint(x) is the unsigned value of x     *)
(* modulo ULongMod, the high half being ignored; dwa_toint(x) is the       *)
(* signed value of x when that is a long, and a long congruent to it       *)
(* modulo ULongMod otherwise.                                              *)
(***************************************************************************)
NarrowingTruncates ==
    /\ pc = "narrow_u" => nv = Val(x) % ULongMod
    /\ pc = "narrow_s" =>
          /\ nv \in Longs
          /\ (nv - SVal(x)) % ULongMod = 0
          /\ SVal(x) \in Longs => nv = SVal(x)

\* a negative value below the smallest long was narrowed to a positive long
NarrowingTruncatesWitness ==
    /\ pc = "narrow_s"
    /\ SVal(x) < LONG_MIN
    /\ nv > 0
    /\ nv # SVal(x)

(***************************************************************************)
(* SpecFp: a caller converts a whole number v, given as a long double, to  *)
(* a double word.                                                          *)
(***************************************************************************)
\* how far around each limit the magnitudes are taken
FpSpread == 20

\* magnitudes: small ones, those around the magnitude of the smallest value
\* and around the number of values, and two beyond
FpMagnitudes ==
    (0 .. (2 * FpSpread))
      \cup ((Modulus \div 2 - FpSpread) .. (Modulus \div 2 + FpSpread))
      \cup ((Modulus - FpSpread) .. (Modulus + FpSpread))
      \cup {Modulus + Modulus \div 2, 2 * Modulus}

InitFp ==
    /\ Fresh
    /\ x = Zero
    /\ y = Zero
    /\ z = Zero
    /\ \E m \in FpMagnitudes : v = m \/ v = 0 - m
    /\ base = 10
    /\ str = <<>>

\* t = dwa_fromfp(v)
FromFp ==
    /\ pc = "start"
    /\ t' = dwa_fromfp(v)
    /\ pc' = "fromfp"
    /\ UNCHANGED <<args, q, r, tmp, natives, strings, faults, threads>>

NextFp == FromFp

SpecFp == InitFp /\ [][NextFp]_vars

\* the largest unsigned value: every bit set
MaxValue == [i \in Idx |-> BASE - 1]

(***************************************************************************)
(* C16.  dwa_fromfp clamps: a negative v of magnitude above Modulus / 2    *)
(* gives the smallest value, a v of at least Modulus gives the value with  *)
(* every bit set, and every other whole v gives the double word of v.      *)
(***************************************************************************)
FromFpClamps ==
    pc = "fromfp" =>
        /\ (v < 0 /\ 0 - v > Modulus \div 2) => t = MinValue
        /\ v >= Modulus => t = MaxValue
        /\ (v >= 0 - Modulus \div 2 /\ v < Modulus) => t = Dwa(v % Modulus)

(***************************************************************************)
(* SpecConc: two callers are in dwa_divu() at once.  x, y, mod, n, m, k    *)
(* and t are each call's own; tmp is the function's static array, the same *)
(* for both.  A step is the entry up to the loop, one iteration of the     *)
(* loop, or the copy of the result.                                        *)
(***************************************************************************)
Callers == {1, 2}

\* dividends and divisors of at least two digits
ConcDividends ==
    { [i \in Idx |-> BASE - 1],
      [i \in Idx |-> IF i = 2 THEN 1 ELSE 0],
      [i \in Idx |-> IF i = 0 THEN 1 ELSE IF i = 1 THEN BASE - 1 ELSE 0] }

ConcDivisors ==
    { [i \in Idx |-> IF i < 2 THEN 1 ELSE 0],
      [i \in Idx |-> IF i = 0 THEN BASE - 1 ELSE IF i = 1 THEN BASE \div 2 ELSE 0],
      [i \in Idx |-> IF i = 2 THEN 1 ELSE 0] }

\* a call that has not started
divuCall(cx, cy, cmod) ==
    [x |-> cx, y |-> cy, mod |-> cmod, n |-> 0, m |-> 0, k |-> 0, t |-> Zero,
     pc |-> "idle"]

InitConc ==
    /\ pc = "start"
    /\ x = Zero
    /\ y = Zero
    /\ z = Zero
    /\ t = Zero
    /\ q = Zero
    /\ r = Zero
    /\ tmp = TmpInit
    /\ v = 0
    /\ nv = 0
    /\ base = 10
    /\ str = <<>>
    /\ endp = 0
    /\ arg = 0
    /\ raised = FALSE
    /\ oob = FALSE
    /\ bufs = Storage
    /\ steps = 0
    /\ calls \in [Callers -> { divuCall(cx, cy, cmod) :
                                 cx \in ConcDividends, cy \in ConcDivisors,
                                 cmod \in {0, 1} }]

\* n = len(x); m = len(y); the branches that return at once, or
\* memcpy(rem, x.u.v, n); rem[n] = 0; k = n - m
divuEnter(c, a) ==
    IF len(c.y) = 1 \/ len(c.y) > len(c.x)
    THEN [call |-> [c EXCEPT !.t = divuRun(a, c.x, c.y, c.mod).t, !.pc = "done"],
          tmp  |-> a]
    ELSE [call |-> [c EXCEPT !.n = len(c.x), !.m = len(c.y),
                             !.k = len(c.x) - len(c.y), !.pc = "loop"],
          tmp  |-> [i \in TmpIdx |-> IF i < len(c.x) THEN c.x[i]
                                     ELSE IF i = len(c.x) THEN 0 ELSE a[i]]]

DivuBegin(c) ==
    /\ calls[c].pc = "idle"
    /\ \E e \in {divuEnter(calls[c], tmp)} :
          /\ calls' = [calls EXCEPT ![c] = e.call]
          /\ tmp' = e.tmp
    /\ UNCHANGED <<pc, args, t, q, r, natives, strings, faults, bufs, steps>>

\* one iteration of for (k = n - m; k >= 0; k--)
DivuIter(c) ==
    /\ calls[c].pc = "loop"
    /\ calls[c].k >= 0
    /\ \E st \in {divuStep(tmp, calls[c].y, calls[c].n, calls[c].m, calls[c].k)} :
          /\ calls' = [calls EXCEPT ![c].t[calls[c].k] = st.qk,
                                    ![c].k = calls[c].k - 1]
          /\ tmp' = st.a
    /\ steps' = steps + 1
    /\ UNCHANGED <<pc, args, t, q, r, natives, strings, faults, bufs>>

\* the copy of the result after the loop, and the return
DivuEnd(c) ==
    /\ calls[c].pc = "loop"
    /\ calls[c].k < 0
    /\ calls' = [calls EXCEPT
                   ![c].t = divuResult([a |-> tmp, t |-> calls[c].t],
                                       calls[c].n, calls[c].m, calls[c].mod).t,
                   ![c].pc = "done"]
    /\ UNCHANGED <<pc, args, t, q, r, tmp, natives, strings, faults, bufs, steps>>

NextConc == \E c \in Callers : DivuBegin(c) \/ DivuIter(c) \/ DivuEnd(c)

SpecConc == InitConc /\ [][NextConc]_vars

(***************************************************************************)
(* C17.  No shared mutable state in the arithmetic core: when the steps of *)
(* two dwa_divu() calls on the multi-digit path interleave, each call      *)
(* returns what it returns when it runs alone.                             *)
(***************************************************************************)
ConcurrentDivu ==
    \A c \in Callers :
        calls[c].pc = "done" =>
            calls[c].t = dwa_divu(calls[c].x, calls[c].y, calls[c].mod)

(***************************************************************************)
(* SpecBuf: two callers are in dwa_tostru() or dwa_tostr() at once, each   *)
(* with a buffer of its own or with none (s = NULL).  A step is the entry  *)
(* up to the loop, one iteration of the loop (one digit stored), or the    *)
(* terminator and the reversal.  calls[c].after tells whether the call     *)
(* started after the other one had returned.                               *)
(***************************************************************************)
\* the buffer of caller c
Own(c) == IF c = 1 THEN "own1" ELSE "own2"

\* the other caller
Other(c) == 3 - c

\* values to print: zero, a two-digit one and the one with every bit set
PrintSamples ==
    { Zero, [i \in Idx |-> IF i < 2 THEN 1 ELSE 0], [i \in Idx |-> BASE - 1] }

PrintRadixes == {10, 16}

\* mutant of tostruStorage: the static array is used whatever s is
tostruStorageStatic(s) == "ubuf"

\* char *p = (s)? s: buf; in dwa_tostru()
tostruStorage(s) == IF s # "NULL" THEN s ELSE "ubuf"

\* if (!s) s = buf; in dwa_tostr()
tostrStorage(s) == IF s # "NULL" THEN s ELSE "sbuf"

\* a call that has not started
strCall(ce, cs, cx, cbase) ==
    [entry |-> ce, s |-> cs, x |-> cx, base |-> cbase, p |-> "NULL", off |-> 0,
     i |-> 0, j |-> SIZE, w |-> cx, pc |-> "idle", ret |-> "NULL", after |-> FALSE]

InitBuf ==
    /\ Fresh
    /\ x = Zero
    /\ y = Zero
    /\ z = Zero
    /\ v = 0
    /\ base = 10
    /\ str = <<>>

\* the callers make up their calls
PickCalls ==
    /\ pc = "start"
    /\ calls' \in [Callers -> { strCall(ce, cs, cx, cbase) :
                                  ce \in {"tostru", "tostr"}, cs \in {"NULL", "own"},
                                  cx \in PrintSamples, cbase \in PrintRadixes }]
    /\ pc' = "calls"
    /\ UNCHANGED <<args, t, q, r, tmp, natives, strings, faults, bufs, steps>>

\* the argument s of call c: its caller's buffer or none
strArg(c) == IF calls[c].s = "NULL" THEN "NULL" ELSE Own(c)

\* dwa_tostr() up to its call of dwa_tostru(): s[0] = '-', and the negation
tostrEnter(c, s, after) ==
    [c EXCEPT !.p = tostruStorage(s),
              !.off = IF sign(c.x) # 0 THEN 1 ELSE 0,
              !.w = IF sign(c.x) # 0 THEN dwa_neg(c.x) ELSE c.x,
              !.pc = "digits", !.after = after]

\* dwa_tostru() up to its loop
tostruEnter(c, s, after) ==
    [c EXCEPT !.p = tostruStorage(s), !.pc = "digits", !.after = after]

StrBegin(c) ==
    /\ pc = "calls"
    /\ calls[c].pc = "idle"
    /\ IF calls[c].entry = "tostr"
       THEN /\ calls' = [calls EXCEPT ![c] =
                           tostrEnter(calls[c], tostrStorage(strArg(c)),
                                      calls[Other(c)].pc = "done")]
            /\ bufs' = [bufs EXCEPT ![tostrStorage(strArg(c))] = Put(@, 0, "-")]
       ELSE /\ calls' = [calls EXCEPT ![c] =
                           tostruEnter(calls[c], strArg(c), calls[Other(c)].pc = "done")]
            /\ bufs' = bufs
    /\ UNCHANGED <<pc, args, t, q, r, tmp, natives, strings, faults, steps>>

\* mutant of tostruDigit: x = quot(x, base, 0) is not stored
tostruDigitStuck(c, w1) ==
    [c EXCEPT !.i = c.i + 1,
              !.pc = IF lenLoop(c.w, c.j) > 1 \/ c.w[0] # 0 THEN "digits" ELSE "finish"]

\* one iteration of the do-while of dwa_tostru(): the call after it
tostruDigit(c, w1) ==
    [c EXCEPT !.w = w1, !.i = c.i + 1, !.j = lenLoop(w1, c.j),
              !.pc = IF lenLoop(w1, c.j) > 1 \/ w1[0] # 0 THEN "digits" ELSE "finish"]

StrDigit(c) ==
    /\ pc = "calls"
    /\ calls[c].pc = "digits"
    /\ bufs' = [bufs EXCEPT ![calls[c].p] =
                  Put(@, calls[c].off + calls[c].i,
                      map[dwa_touint(quot(calls[c].w, calls[c].base, 1)) + 1])]
    /\ calls' = [calls EXCEPT ![c] = tostruDigit(calls[c], quot(calls[c].w, calls[c].base, 0))]
    /\ oob' = (oob \/ calls[c].off + calls[c].i >= Len(bufs[calls[c].p]))
    /\ steps' = steps + 1
    /\ UNCHANGED <<pc, args, t, q, r, tmp, natives, strings, arg, raised>>

\* p[i] = '\0', the reversal and the return: of p, or of s from dwa_tostr()
StrFinish(c) ==
    /\ pc = "calls"
    /\ calls[c].pc = "finish"
    /\ bufs' = [bufs EXCEPT ![calls[c].p] = tostruFinish(@, calls[c].off, calls[c].i)]
    /\ calls' = [calls EXCEPT ![c].pc = "done",
                              ![c].ret = IF calls[c].entry = "tostr"
                                         THEN tostrStorage(strArg(c))
                                         ELSE calls[c].p]
    /\ oob' = (oob \/ calls[c].off + calls[c].i >= Len(bufs[calls[c].p]))
    /\ UNCHANGED <<pc, args, t, q, r, tmp, natives, strings, arg, raised, steps>>

NextBuf == PickCalls \/ \E c \in Callers : StrBegin(c) \/ StrDigit(c) \/ StrFinish(c)

SpecBuf == InitBuf /\ [][NextBuf]_vars

\* the string call c gives when it runs alone, with a buffer
AloneText(c) ==
    IF c.entry = "tostr" THEN Text(dwa_tostr(FreshBuffer, c.x, c.base))
                         ELSE Text(dwa_tostru(FreshBuffer, 0, c.x, c.base))

(***************************************************************************)
(* C18.  String storage is shared only when no buffer is given: when each  *)
(* caller passes its own buffer, however the steps of the calls interleave *)
(* a call that has returned has left, and keeps, the string it gives when  *)
(* it runs alone; when two calls of the same function pass no buffer they  *)
(* return the same static array, and once the later call has returned the  *)
(* array holds the later call's string.                                    *)
(***************************************************************************)
SharedOnlyWithoutBuffer ==
    pc = "calls" =>
      \A c \in Callers :
        /\ (/\ \A d \in Callers : calls[d].s # "NULL"
            /\ calls[c].pc = "done")
              => Text(bufs[calls[c].ret]) = AloneText(calls[c])
        /\ (/\ \A d \in Callers : calls[d].s = "NULL" /\ calls[d].pc = "done"
            /\ calls[1].entry = calls[2].entry)
              => /\ calls[1].ret = calls[2].ret
                 /\ calls[c].after
                      => Text(bufs[calls[Other(c)].ret]) = AloneText(calls[c])

\* two calls with buffers of their own overlapped and left different strings
SharedOnlyWithoutBufferWitness ==
    /\ pc = "calls"
    /\ \A c \in Callers :
          /\ calls[c].s # "NULL"
          /\ calls[c].pc = "done"
          /\ ~calls[c].after
          /\ calls[c].i > 2
    /\ Text(bufs["own1"]) # Text(bufs["own2"])

(***************************************************************************)
(* SpecShiftAny: a caller shifts x by an amount that may be negative.      *)
(* None of dwa_lsh(), dwa_rshl() and dwa_rsha() has an assert(): a call    *)
(* raises nothing and returns.  g is what a read outside x.u.v finds.      *)
(***************************************************************************)
\* the amounts: negative ones down to more than the width, and the others
\* up to more than the width
AnyAmounts == (0 - (Bits + DigitBits)) .. (Bits + DigitBits + 1)

PickAnyAmount ==
    /\ pc = "start"
    /\ \E n \in AnyAmounts : arg' = n
    /\ pc' = "any_amount"
    /\ UNCHANGED <<args, t, q, r, tmp, natives, strings, raised, oob, threads>>

\* t = dwa_lsh(x, arg)
LshAny ==
    /\ pc = "any_amount"
    /\ \E g \in DigitSamples : \E run \in {lshRun(x, arg, g)} :
          t' = run.t /\ oob' = run.oob
    /\ raised' = FALSE
    /\ pc' = "lsh_any"
    /\ UNCHANGED <<args, q, r, tmp, natives, strings, arg, threads>>

\* t = dwa_rshl(x, arg)
RshlAny ==
    /\ pc = "any_amount"
    /\ \E g \in DigitSamples : \E run \in {rshlRun(x, arg, g)} :
          t' = run.t /\ oob' = run.oob
    /\ raised' = FALSE
    /\ pc' = "rshl_any"
    /\ UNCHANGED <<args, q, r, tmp, natives, strings, arg, threads>>

\* t = dwa_rsha(x, arg)
RshaAny ==
    /\ pc = "any_amount"
    /\ \E g \in DigitSamples : \E run \in {rshaRun(x, arg, g)} :
          t' = run.t /\ oob' = run.oob
    /\ raised' = FALSE
    /\ pc' = "rsha_any"
    /\ UNCHANGED <<args, q, r, tmp, natives, strings, arg, threads>>

NextShiftAny == PickAnyAmount \/ LshAny \/ RshlAny \/ RshaAny

SpecShiftAny == InitShift /\ [][NextShiftAny]_vars

(***************************************************************************)
(* C19.  A negative shift amount is caught by the assertion: dwa_lsh(),    *)
(* dwa_rshl() and dwa_rsha() called with a negative amount raise the       *)
(* assertion failure, return no value and use no index outside             *)
(* 0 .. SIZE-1.                                                            *)
(***************************************************************************)
NegativeShiftAsserts ==
    (pc \in {"lsh_any", "rshl_any", "rsha_any"} /\ arg < 0) => (raised /\ ~oob)

(***************************************************************************)
(* SpecAssert: a caller passes an operation code or a radix arg that may   *)
(* be invalid.  A failed assert() raises assert_exceptfail and the call    *)
(* returns no value: raised is set and the result keeps what it held.      *)
(***************************************************************************)
\* operation codes and radixes: the valid ones and a few on either side
IntArgs == (0 - 2) .. 39

\* texts to parse: a numeral, a prefixed one and one with no digit
AssertTexts == { <<"1", "0">>, <<"-", "0", "x", "1", "f">>, <<"!">> }

InitAssert ==
    /\ Fresh
    /\ x \in AddSamples
    /\ y \in AddSamples
    /\ z = Zero
    /\ v = 0
    /\ base = 10
    /\ str = FreshBuffer

\* the caller picks the operation code or radix
PickArg ==
    /\ pc = "start"
    /\ \E n \in IntArgs : arg' = n
    /\ pc' = "arg"
    /\ UNCHANGED <<args, t, q, r, tmp, natives, strings, raised, oob, threads>>

\* t = dwa_bit(x, y, arg)
Bit ==
    /\ pc = "arg"
    /\ raised' = bitAsserts(arg)
    /\ t' = IF bitAsserts(arg) THEN t ELSE dwa_bit(x, y, arg)
    /\ pc' = "bit"
    /\ UNCHANGED <<args, q, r, tmp, natives, strings, arg, oob, threads>>

\* dwa_tostru(str, x, arg)
ToStrUArg ==
    /\ pc = "arg"
    /\ raised' = tostruAsserts(arg)
    /\ str' = IF tostruAsserts(arg) THEN str ELSE dwa_tostru(str, 0, x, arg)
    /\ pc' = "tostru_arg"
    /\ UNCHANGED <<args, t, q, r, tmp, natives, base, endp, arg, oob, threads>>

\* dwa_tostr(str, x, arg): s[0] = '-' is stored before dwa_tostru() asserts
ToStrArg ==
    /\ pc = "arg"
    /\ raised' = tostruAsserts(arg)
    /\ str' = IF tostruAsserts(arg) THEN Put(str, 0, "-") ELSE dwa_tostr(str, x, arg)
    /\ pc' = "tostr_arg"
    /\ UNCHANGED <<args, t, q, r, tmp, natives, base, endp, arg, oob, threads>>

\* t = dwa_fromstr(text, arg, &endp)
FromStrArg ==
    /\ pc = "arg"
    /\ raised' = fromstrAsserts(arg)
    /\ \E text \in AssertTexts :
          /\ str' = text
          /\ IF fromstrAsserts(arg)
             THEN t' = t /\ endp' = endp
             ELSE \E c \in {dwa_fromstr(text, arg)} : t' = c.t /\ endp' = c.end
    /\ pc' = "fromstr_arg"
    /\ UNCHANGED <<args, q, r, tmp, natives, base, arg, oob, threads>>

NextAssert == PickArg \/ Bit \/ ToStrUArg \/ ToStrArg \/ FromStrArg

SpecAssert == InitAssert /\ [][NextAssert]_vars

(***************************************************************************)
(* C20.  An invalid operation code or radix is caught by the assertion:    *)
(* dwa_bit() with a code outside {0, 1, 2}, dwa_tostru() and dwa_tostr()   *)
(* with a radix outside 2..36 and dwa_fromstr() with a radix that is       *)
(* neither 0 nor in 2..36 raise the assertion failure and return no value; *)
(* a code or radix inside those sets never raises it.                      *)
(***************************************************************************)
InvalidArgumentAsserts ==
    /\ pc = "bit" =>
          /\ raised <=> arg \notin {0, 1, 2}
          /\ raised => t = Zero
          /\ ~raised => Val(t) = IF arg = 0 THEN Val(dwa_bit(y, x, 0))
                                 ELSE Val(x) + Val(y) - (3 - arg) * Val(dwa_bit(x, y, 0))
    /\ pc \in {"tostru_arg", "tostr_arg"} =>
          /\ raised <=> arg \notin 2 .. 36
          /\ raised => CLen(str) = Len(FreshBuffer)
          /\ ~raised => CLen(str) < Len(FreshBuffer)
    /\ pc = "fromstr_arg" =>
          /\ raised <=> arg \notin ({0} \cup (2 .. 36))
          /\ raised => (t = Zero /\ endp = 0)

\* dwa_tostr() was called with radix 37: the assertion was raised after the
\* sign had been stored and no string was made
InvalidArgumentAssertsWitness ==
    /\ pc = "tostr_arg"
    /\ arg = 37
    /\ raised
    /\ At(str, 0) = "-"
    /\ CLen(str) = Len(FreshBuffer)

(***************************************************************************)
(* SpecSteps: one caller makes one call of dwa_divu(), of dwa_tostru() or  *)
(* dwa_tostr(), or of dwa_fromstr(), and the call runs a loop iteration at *)
(* a time; calls[1] holds its arguments and locals, steps the number of    *)
(* iterations made.  SpecStepsLive adds that a call that can take a step   *)
(* takes one: nothing else runs and nothing blocks.                        *)
(***************************************************************************)
\* values to print and to divide: AddSamples and two with digits of every kind
StepValues ==
    AddSamples \cup { [i \in Idx |-> IF i < 2 THEN 1 ELSE 0],
                      [i \in Idx |-> IF i = 0 THEN 1 ELSE BASE - 1 - i] }

\* divisors: zero, one digit, and two and more digits
StepDivisors == {Zero, [Zero EXCEPT ![0] = BASE - 1]} \cup ConcDivisors

\* radixes of the texts parsed a character at a time
StepRadixes == {0, 2, 10, 16, 36}

\* texts to parse: white space or none, a sign or none, a run of digits
\* around the largest value or a short body, and one more character
StepTexts(b) ==
    { ld \o sg \o bd \o <<"!">> :
        ld \in {<<>>, <<"\t", " ">>}, sg \in {<<>>, <<"-">>},
        bd \in ShortBodies \cup BoundaryRuns(IF b = 0 THEN 10 ELSE b) }

\* a call of dwa_fromstr() that has passed its assertions
fromstrCall(cs, cbase) ==
    [str |-> cs, base |-> cbase, p |-> 0, s |-> 0, t |-> Zero, end |-> 0, pc |-> "spaces"]

InitSteps ==
    /\ Fresh
    /\ x = Zero
    /\ y = Zero
    /\ z = Zero
    /\ v = 0
    /\ base = 10
    /\ str = <<>>

\* the caller calls dwa_divu(cx, cy, cmod)
CallDivu ==
    /\ pc = "start"
    /\ \E cx \in StepValues, cy \in StepDivisors, cmod \in {0, 1} :
          calls' = [c \in {1} |-> divuCall(cx, cy, cmod)]
    /\ pc' = "divu_steps"
    /\ UNCHANGED <<args, t, q, r, tmp, natives, strings, faults, bufs, steps>>

\* the caller calls dwa_tostru() or dwa_tostr(), with its buffer or with none
CallStr ==
    /\ pc = "start"
    /\ \E ce \in {"tostru", "tostr"}, cs \in {"NULL", "own"}, cx \in StepValues,
          cbase \in Radixes :
          calls' = [c \in {1} |-> strCall(ce, cs, cx, cbase)]
    /\ pc' = "calls"
    /\ UNCHANGED <<args, t, q, r, tmp, natives, strings, faults, bufs, steps>>

\* the caller calls dwa_fromstr(cs, cbase, &end)
CallFromStr ==
    /\ pc = "start"
    /\ \E cbase \in StepRadixes : \E cs \in StepTexts(cbase) :
          calls' = [c \in {1} |-> fromstrCall(cs, cbase)]
    /\ pc' = "fromstr_steps"
    /\ UNCHANGED <<args, t, q, r, tmp, natives, strings, faults, bufs, steps>>

\* the entry of the string call up to the loop; no other call was made
StrBeginAlone ==
    /\ pc = "calls"
    /\ calls[1].pc = "idle"
    /\ IF calls[1].entry = "tostr"
       THEN /\ calls' = [calls EXCEPT ![1] =
                           tostrEnter(calls[1], tostrStorage(strArg(1)), TRUE)]
            /\ bufs' = [bufs EXCEPT ![tostrStorage(strArg(1))] = Put(@, 0, "-")]
       ELSE /\ calls' = [calls EXCEPT ![1] = tostruEnter(calls[1], strArg(1), TRUE)]
            /\ bufs' = bufs
    /\ UNCHANGED <<pc, args, t, q, r, tmp, natives, strings, faults, steps>>

\* p[i] = '\0'; and j = 0 of the reversal
StrTerminate ==
    /\ pc = "calls"
    /\ calls[1].pc = "finish"
    /\ bufs' = [bufs EXCEPT ![calls[1].p] = Put(@, calls[1].off + calls[1].i, NUL)]
    /\ calls' = [calls EXCEPT ![1].j = 0, ![1].pc = "reverse"]
    /\ oob' = (oob \/ calls[1].off + calls[1].i >= Len(bufs[calls[1].p]))
    /\ UNCHANGED <<pc, args, t, q, r, tmp, natives, strings, arg, raised, steps>>

\* p[j] and p[i] exchanged, with the i that --i left
strSwap(b, lo, hi) == Put(Put(b, lo, At(b, hi)), hi, At(b, lo))

\* one iteration of for (j = 0; j < --i; j++)
StrSwap ==
    /\ pc = "calls"
    /\ calls[1].pc = "reverse"
    /\ calls[1].j < calls[1].i - 1
    /\ bufs' = [bufs EXCEPT ![calls[1].p] =
                  strSwap(@, calls[1].off + calls[1].j, calls[1].off + calls[1].i - 1)]
    /\ calls' = [calls EXCEPT ![1].j = calls[1].j + 1, ![1].i = calls[1].i - 1]
    /\ steps' = steps + 1
    /\ UNCHANGED <<pc, args, t, q, r, tmp, natives, strings, faults>>

\* the end of the reversal and the return: of p, or of s from dwa_tostr()
StrReturn ==
    /\ pc = "calls"
    /\ calls[1].pc = "reverse"
    /\ ~(calls[1].j < calls[1].i - 1)
    /\ calls' = [calls EXCEPT ![1].pc = "done",
                              ![1].ret = IF calls[1].entry = "tostr"
                                         THEN tostrStorage(strArg(1))
                                         ELSE calls[1].p]
    /\ UNCHANGED <<pc, args, t, q, r, tmp, natives, strings, faults, bufs, steps>>

\* one iteration of while (isspace(*p)) p++;
FromStrSpace ==
    /\ pc = "fromstr_steps"
    /\ calls[1].pc = "spaces"
    /\ isspace(At(calls[1].str, calls[1].p))
    /\ calls' = [calls EXCEPT ![1].p = calls[1].p + 1]
    /\ steps' = steps + 1
    /\ UNCHANGED <<pc, args, t, q, r, tmp, natives, strings, faults, bufs>>

\* the sign, the radix and the prefix, and the first valid(): the call after them
fromstrHead(c, sc) ==
    IF valid(c.str, sc.p, sc.base)
    THEN [c EXCEPT !.s = sc.s, !.base = sc.base, !.p = sc.p, !.pc = "digits"]
    ELSE [c EXCEPT !.s = sc.s, !.base = sc.base, !.p = 0, !.pc = "end"]

FromStrHead ==
    /\ pc = "fromstr_steps"
    /\ calls[1].pc = "spaces"
    /\ ~isspace(At(calls[1].str, calls[1].p))
    /\ \E sc \in {fromstrScan(calls[1].str, calls[1].base)} :
       \E c \in {fromstrHead(calls[1], sc)} :
          calls' = [calls EXCEPT ![1] = c]
    /\ UNCHANGED <<pc, args, t, q, r, tmp, natives, strings, faults, bufs, steps>>

\* one iteration of do { ... } while(valid()): the call after it
fromstrStep(c, pr) ==
    IF pr.c > 0
    THEN [c EXCEPT !.t = pr.a, !.pc = "end"]
    ELSE [c EXCEPT !.t = dwa_add(pr.a, dwa_fromuint(strchrMap(tolower(At(c.str, c.p))))),
                   !.p = c.p + 1,
                   !.pc = IF valid(c.str, c.p + 1, c.base) THEN "digits" ELSE "end"]

FromStrDigit ==
    /\ pc = "fromstr_steps"
    /\ calls[1].pc = "digits"
    /\ \E pr \in {prod(SIZE, calls[1].t, 0, calls[1].t, calls[1].base)} :
       \E c \in {fromstrStep(calls[1], pr)} :
          calls' = [calls EXCEPT ![1] = c]
    /\ steps' = steps + 1
    /\ UNCHANGED <<pc, args, t, q, r, tmp, natives, strings, faults, bufs>>

\* if (end) *end = (char *)p; return (s)? dwa_neg(t): t;
FromStrEnd ==
    /\ pc = "fromstr_steps"
    /\ calls[1].pc = "end"
    /\ calls' = [calls EXCEPT ![1].t = IF calls[1].s # 0 THEN dwa_neg(calls[1].t)
                                                        ELSE calls[1].t,
                              ![1].end = calls[1].p,
                              ![1].pc = "done"]
    /\ UNCHANGED <<pc, args, t, q, r, tmp, natives, strings, faults, bufs, steps>>

DivuSteps == pc = "divu_steps" /\ (DivuBegin(1) \/ DivuIter(1) \/ DivuEnd(1))

StrSteps == StrBeginAlone \/ StrDigit(1) \/ StrTerminate \/ StrSwap \/ StrReturn

FromStrSteps == FromStrSpace \/ FromStrHead \/ FromStrDigit \/ FromStrEnd

NextSteps == CallDivu \/ CallStr \/ CallFromStr \/ DivuSteps \/ StrSteps \/ FromStrSteps

SpecSteps == InitSteps /\ [][NextSteps]_vars

SpecStepsLive == SpecSteps /\ WF_vars(NextSteps)

\* the call in progress has returned
Returned == pc # "start" /\ calls[1].pc = "done"

\* what the call returns when it runs in one piece
StepwiseAgrees ==
    Returned =>
        /\ pc = "divu_steps" => calls[1].t = dwa_divu(calls[1].x, calls[1].y, calls[1].mod)
        /\ (pc = "calls" /\ ~oob) => Text(bufs[calls[1].ret]) = AloneText(calls[1])
        /\ pc = "fromstr_steps" =>
              \E b \in StepRadixes : \E c \in {dwa_fromstr(calls[1].str, b)} :
                  calls[1].t = c.t /\ calls[1].end = c.end

\* the number of iterations a call has made, against what its arguments allow
StepBounds ==
    /\ pc = "calls" =>
          /\ calls[1].pc \in {"idle", "digits", "finish"}
                => (steps = calls[1].i /\ calls[1].i <= Bits)
          /\ steps <= Bits + Bits \div 2
    /\ pc = "divu_steps" =>
          LET n == len(calls[1].x)
              m == len(calls[1].y)
              all == IF m >= 2 /\ n >= m THEN n - m + 1 ELSE 0
          IN  /\ steps <= all
              /\ calls[1].pc = "done" => steps = all
    /\ pc = "fromstr_steps" => steps <= Len(calls[1].str)

(***************************************************************************)
(* C21.  Every operation terminates: the call returns, the loop of         *)
(* dwa_tostru() after at most Bits digits for every x and every radix in   *)
(* 2..36, the loop of dwa_divu() over the quotient positions after         *)
(* n - m + 1 iterations, and dwa_fromstr() after at most one iteration for *)
(* each character of the text.                                             *)
(***************************************************************************)
EveryCallReturns == []StepBounds /\ <>Returned

\* the value with every bit set was printed in radix 2: Bits digits, and the
\* call returned
EveryCallReturnsWitness ==
    /\ Returned
    /\ pc = "calls"
    /\ calls[1].base = 2
    /\ steps = Bits + Bits \div 2
    /\ ~oob

(***************************************************************************)
(* SpecDivSteps: one call of dwa_divu() with a divisor of two digits or    *)
(* more, a quotient position at a time.                                    *)
(***************************************************************************)
\* the divisors with at least two significant digits
LongDivisors == {d \in Divisors : len(d) >= 2}

CallDivuLong ==
    /\ pc = "start"
    /\ \E cx \in Operands, cy \in LongDivisors, cmod \in {0, 1} :
          calls' = [c \in {1} |-> divuCall(cx, cy, cmod)]
    /\ pc' = "divu_steps"
    /\ UNCHANGED <<args, t, q, r, tmp, natives, strings, faults, bufs, steps>>

NextDivSteps == CallDivuLong \/ DivuSteps

SpecDivSteps == InitSteps /\ [][NextDivSteps]_vars

\* the value of the digits a[lo .. hi - 1]
RECURSIVE ValOf(_, _, _)
ValOf(a, lo, hi) == IF lo < hi THEN a[lo] + BASE * ValOf(a, lo + 1, hi) ELSE 0

\* the quotient digits of call c above position k, as a number
RECURSIVE QuotAbove(_, _)
QuotAbove(c, k) ==
    IF k + 1 > c.n - c.m THEN 0 ELSE c.t[k + 1] * (BASE ^ (k + 1)) + QuotAbove(c, k + 1)

\* the running remainder of call c before the step at position k: what is
\* left of x when the quotient digits above k are taken
RemBefore(c, k) == Val(c.x) - QuotAbove(c, k) * Val(c.y)

\* the m+1-digit window of the remainder the step at position k divides
WindowBefore(c, k) == RemBefore(c, k) \div (BASE ^ k)

\* the estimate of the step at position k: three digits of the window by
\* two of the divisor, capped to BASE - 1
EstimateBefore(c, k) ==
    LET r3 == WindowBefore(c, k) \div (BASE ^ (c.m - 2))
        y2 == Val(c.y) \div (BASE ^ (c.m - 2))
    IN  IF r3 \div y2 >= BASE THEN BASE - 1 ELSE r3 \div y2

\* call c is in the loop and has made the step at position c.k + 1
StepMade(c) == c.pc = "loop" /\ c.k < c.n - c.m

(***************************************************************************)
(* C22.  One correction is enough without normalisation: for every         *)
(* dividend and every divisor of two digits or more (a leading digit of 1  *)
(* included), at every quotient position k the digit stored, the capped    *)
(* estimate or one less, is floor(window / y); the subtraction of the      *)
(* trial product leaves no borrow, and the running remainder after the     *)
(* step is smaller than y * BASE^k.                                        *)
(***************************************************************************)
OneCorrectionEnough ==
    (pc = "divu_steps" /\ StepMade(calls[1])) =>
        LET c  == calls[1]
            k  == c.k + 1
            qk == c.t[k]
        IN  /\ qk = WindowBefore(c, k) \div Val(c.y)
            /\ qk \in {EstimateBefore(c, k), EstimateBefore(c, k) - 1}
            /\ tmp[c.n] = 0
            /\ ValOf(tmp, 0, c.n) = RemBefore(c, k) - qk * Val(c.y) * (BASE ^ k)
            /\ ValOf(tmp, 0, c.n) \div (BASE ^ k) < Val(c.y)

\* a divisor with the leading digit 1: the estimate of a step was one too
\* large, and the digit stored is the estimate corrected once
OneCorrectionEnoughWitness ==
    /\ pc = "divu_steps"
    /\ StepMade(calls[1])
    /\ calls[1].y[calls[1].m - 1] = 1
    /\ calls[1].n > calls[1].m
    /\ calls[1].t[calls[1].k + 1] = EstimateBefore(calls[1], calls[1].k + 1) - 1

\* (a * 2^n) mod Modulus for 0 <= a < Modulus, by doubling
RECURSIVE ShiftedLeft(_, _)
ShiftedLeft(a, n) == IF n = 0 THEN a ELSE (2 * ShiftedLeft(a, n - 1)) % Modulus

(***************************************************************************)
(* C23.  dwa_lsh is multiplication by a power of two modulo the width: for *)
(* every x and every n >= 0, dwa_lsh(x, n) is (x * 2^n) mod Modulus,       *)
(* whatever the uninitialized t held; for n >= Bits it is zero; and no     *)
(* index outside 0 .. SIZE-1 is used for any n >= 0.                       *)
(***************************************************************************)
LshMultiplies ==
    (pc = "lsh_any" /\ arg >= 0) =>
        /\ Val(t) = ShiftedLeft(Val(x), arg)
        /\ arg >= Bits => t = Zero
        /\ ~oob
        /\ ~raised

\* a shift by two digits and some bits, of an x whose bits partly leave at
\* the top
LshMultipliesWitness ==
    /\ pc = "lsh_any"
    /\ arg = 2 * DigitBits + 3
    /\ t # Zero
    /\ Val(x) >= 2 ^ (Bits - arg)
    /\ Val(t) = (Val(x) % (2 ^ (Bits - arg))) * (2 ^ arg)

\* floor(a / 2^n) for an integer a, by halving
RECURSIVE ShiftedRight(_, _)
ShiftedRight(a, n) == IF n = 0 THEN a ELSE ShiftedRight(a, n - 1) \div 2

(***************************************************************************)
(* C24.  dwa_rsha is a sign-extending shift: for every x and every n >= 0, *)
(* dwa_rsha(x, n) is floor(s / 2^n) for the two's-complement value s of x  *)
(* (the n vacated top bits are copies of the sign bit); for n >= Bits it   *)
(* is all ones if x is negative and zero otherwise; and for x with the     *)
(* sign bit clear it is dwa_rshl(x, n).                                    *)
(***************************************************************************)
RshaExtendsSign ==
    (pc = "rsha_any" /\ arg >= 0) =>
        /\ SVal(t) = ShiftedRight(SVal(x), arg)
        /\ arg >= Bits => t = [i \in Idx |-> IF sign(x) # 0 THEN BASE - 1 ELSE 0]
        /\ sign(x) = 0 => t = dwa_rshl(x, arg)
        /\ ~oob

\* a negative x shifted by a digit and two bits: the result is negative and
\* is not what the logical shift gives
RshaExtendsSignWitness ==
    /\ pc = "rsha_any"
    /\ arg = DigitBits + 2
    /\ sign(x) = 1
    /\ sign(t) = 1
    /\ t # dwa_rshl(x, arg)
    /\ t # [i \in Idx |-> BASE - 1]

(***************************************************************************)
(* SpecDivZero: a caller divides x by y, y zero or not, with dwa_divu()    *)
(* or with dwa_div(): the quotient, then the remainder.                    *)
(***************************************************************************)
NextDivZero == DivuQuot \/ DivuRem \/ DivQuot \/ DivRem

SpecDivZero == Init /\ [][NextDivZero]_vars

(***************************************************************************)
(* C25.  Division by zero is not an error: for every x, dwa_divu(x, 0, .)  *)
(* returns zero as the quotient and as the remainder, and so does          *)
(* dwa_div(x, 0, .); no assertion is raised.                               *)
(***************************************************************************)
DivisionByZero ==
    y = Zero =>
        /\ pc \in {"divu_q", "divu_r", "div_q", "div_r"} => q = Zero
        /\ pc \in {"divu_r", "div_r"} => r = Zero
        /\ ~raised

\* a negative x was divided by zero with dwa_div(): quotient and remainder
\* are zero
DivisionByZeroWitness ==
    /\ pc = "div_r"
    /\ y = Zero
    /\ sign(x) = 1
    /\ len(x) = SIZE
    /\ q = Zero
    /\ r = Zero

\* the number of digits consumed when the multiplication by the radix b
\* overflows: the least k, a digit following, for which the value of the
\* first k digits of the run at offset i fits and its product with b does
\* not; 0 if there is none
RefProductOverflow(s, i, b) ==
    LET n == RefRunLen(s, i, b)
        K == {k \in 1 .. (n - 1) : /\ RefRunValue(s, i, b, k) < Modulus
                                   /\ RefRunValue(s, i, b, k) > (Modulus - 1) \div b}
    IN  IF K = {} THEN 0 ELSE CHOOSE k \in K : \A j \in K : k <= j

(***************************************************************************)
(* C26.  The value dwa_fromstr returns when it stops for overflow: if the  *)
(* product of the accumulated value acc and the radix overflows at a valid *)
(* digit, end points at that digit and the magnitude returned is           *)
(* (acc * radix) mod Modulus, the accumulator already multiplied and       *)
(* wrapped, under the sign of the text.                                    *)
(***************************************************************************)
OverflowValue ==
    pc = "fromstr" =>
        LET i == RefDigitStart(str, base)
            b == RefRadix(str, base)
            k == RefProductOverflow(str, i, b)
        IN  k > 0 =>
              /\ endp = i + k
              /\ t = RefSigned(str, MulMod(RefRunValue(str, i, b, k), b))

\* seven hexadecimal digits, the first six the largest value: the value
\* returned is the largest value times 16, wrapped, and not the largest
\* value; end is at the seventh digit
OverflowValueWitness ==
    /\ pc = "fromstr"
    /\ base = 16
    /\ ~RefNegative(str)
    /\ RefProductOverflow(str, RefDigitStart(str, base), 16) = (Bits \div 4)
    /\ RefRunValue(str, RefDigitStart(str, base), 16, (Bits \div 4)) = Modulus - 1
    /\ t = Dwa(Modulus - 16)
    /\ endp = RefDigitStart(str, base) + (Bits \div 4)
    /\ At(str, endp) = "0"

(***************************************************************************)
(* SpecReadSigned: a caller parses a numeral of full width, with a sign or *)
(* without, and prints the value in radix 10 with dwa_tostr(NULL, ...), as *)
(* the tests of dwa.c do.                                                  *)
(***************************************************************************)
\* magnitudes: small ones, those around the largest signed value and the
\* largest value
ReadMagnitudes ==
    {0, 1, BASE, Modulus \div 2 - 1, Modulus \div 2, Modulus \div 2 + 1, Modulus - 2,
     Modulus - 1}

ReadRadixes == {0, 2, 8, 10, 16, 36}

\* the numerals of the magnitudes in radix b, or with base 0 in radix 10,
\* in radix 8 after 0 and in radix 16 after 0x; also after two zeros
ReadBodies(b) ==
    IF b = 0
    THEN UNION { { Numeral(m, 10), <<"0">> \o Numeral(m, 8), <<"0", "x">> \o Numeral(m, 16) } :
                   m \in ReadMagnitudes \ {0} }
    ELSE UNION { { Numeral(m, b), <<"0", "0">> \o Numeral(m, b) } : m \in ReadMagnitudes }

ReadTexts(b) ==
    { sg \o bd \o tl : sg \in Signs, bd \in ReadBodies(b), tl \in Tails }

InitReadSigned ==
    /\ Fresh
    /\ x = Zero
    /\ y = Zero
    /\ z = Zero
    /\ v = 0
    /\ base \in ReadRadixes
    /\ str \in ReadTexts(base)

\* dwa_tostr(NULL, t, 10) with t the value parsed
PrintRead ==
    /\ pc = "fromstr"
    /\ bufs' = [bufs EXCEPT !["sbuf"] = dwa_tostr(@, t, 10)]
    /\ pc' = "read_printed"
    /\ UNCHANGED <<args, t, q, r, tmp, natives, strings, faults, calls, steps>>

NextReadSigned == FromStr \/ PrintRead

SpecReadSigned == InitReadSigned /\ [][NextReadSigned]_vars

(***************************************************************************)
(* C27.  dwa_fromstr parses an unsigned magnitude and applies the sign     *)
(* afterwards: for every run of digits whose value m is at most            *)
(* Modulus - 1, every digit is consumed and the result is m with no sign   *)
(* or '+' and (Modulus - m) mod Modulus with '-'.  A magnitude above the   *)
(* largest signed value is no overflow: the largest value in radix 16      *)
(* parses to what dwa_tostr prints as -1, and '-' before Modulus / 2       *)
(* parses to the smallest value.                                           *)
(***************************************************************************)
SignAfterMagnitude ==
    pc \in {"fromstr", "read_printed"} =>
        LET i == RefDigitStart(str, base)
            b == RefRadix(str, base)
            n == RefRunLen(str, i, b)
            m == RefRunValue(str, i, b, n)
        IN  (n > 0 /\ m < Modulus) =>
              /\ endp = i + n
              /\ Val(t) = IF At(str, 0) = "-" THEN (Modulus - m) % Modulus ELSE m
              /\ (At(str, 0) = "-" /\ m = Modulus \div 2) => t = MinValue
              /\ (pc = "read_printed" /\ At(str, 0) # "-" /\ m = Modulus - 1)
                    => Text(bufs["sbuf"]) = <<"-", "1">>
              /\ pc = "read_printed" => Text(bufs["sbuf"]) = SignedNumeral(SVal(t), 10)

\* '-' before the numeral of Modulus / 2 in radix 10, base 0: the smallest
\* value, printed with its sign
SignAfterMagnitudeWitness ==
    /\ pc = "read_printed"
    /\ base = 0
    /\ At(str, 0) = "-"
    /\ RefRunValue(str, 1, 10, RefRunLen(str, 1, 10)) = Modulus \div 2
    /\ t = MinValue
    /\ At(str, endp) = "!"
    /\ Text(bufs["sbuf"]) = <<"-">> \o Numeral(Modulus \div 2, 10)

(***************************************************************************)
(* SpecSeq: a caller calls dwa_divu() again and again, each call with      *)
(* arguments of its choice (arg is mod); tmp is what the calls before left *)
(* in the static array.                                                    *)
(***************************************************************************)
SeqDividends == StepValues \cup ConcDividends

\* q = dwa_divu(x, y, arg) with new x, y and arg
DivuAgain ==
    /\ pc \in {"start", "divu_again"}
    /\ \E cx \in SeqDividends, cy \in StepDivisors, cmod \in {0, 1} :
          /\ x' = cx
          /\ y' = cy
          /\ arg' = cmod
          /\ \E c \in {divuRun(tmp, cx, cy, cmod)} : q' = c.t /\ tmp' = c.tmp
    /\ pc' = "divu_again"
    /\ UNCHANGED <<z, t, r, natives, strings, raised, oob, threads>>

NextSeq == DivuAgain

SpecSeq == InitSteps /\ [][NextSeq]_vars

(***************************************************************************)
(* C28.  dwa_divu is pure across any sequence of calls: the result of a    *)
(* call is what the call gives on a static array that was never used, so   *)
(* it depends on the call's arguments alone; the indices the call uses in  *)
(* the array, 0 .. n for the remainder and n+1 .. n+1+m for the trial      *)
(* product, are within 0 .. 2*SIZE+1 and the two regions are disjoint.     *)
(***************************************************************************)
PureAcrossCalls ==
    pc = "divu_again" =>
        LET n == len(x)
            m == len(y)
        IN  /\ q = dwa_divu(x, y, arg)
            /\ (m >= 2 /\ n >= m) =>
                  /\ (0 .. (n + 1 + m)) \subseteq TmpIdx
                  /\ (0 .. n) \cap ((n + 1) .. (n + 1 + m)) = {}
                  /\ \A i \in 0 .. (n + 1 + m) : tmp[i] \in 0 .. (BASE - 1)

\* a multi-digit division ran on an array that an earlier, longer division
\* had left nonzero above the cells this one uses
PureAcrossCallsWitness ==
    /\ pc = "divu_again"
    /\ len(y) >= 2
    /\ len(x) = len(y)
    /\ len(x) < SIZE
    /\ q # Zero
    /\ \E i \in TmpIdx : i > len(x) + 1 + len(y) /\ tmp[i] # 0

(***************************************************************************)
(* C29.  The signed multiplication changes nothing: for every x and y,     *)
(* dwa_mul(x, y) is the digit array dwa_mulu(x, y) is, (x * y) mod         *)
(* Modulus, also when an operand is the smallest value, whose negation is  *)
(* itself.                                                                 *)
(***************************************************************************)
MulIsMulu ==
    pc = "mul" =>
        /\ t = dwa_mulu(x, y)
        /\ Val(t) = MulMod(Val(x), Val(y))

\* the smallest value was multiplied by a negative odd y: the product is
\* the smallest value
MulIsMuluWitness ==
    /\ pc = "mul"
    /\ x = MinValue
    /\ sign(y) = 1
    /\ y[0] % 2 = 1
    /\ t = MinValue

(***************************************************************************)
(* C30.  String output fits its buffer: for every x and every radix in     *)
(* 2..36 the characters dwa_tostr() and dwa_tostru() write, the '-' and    *)
(* the terminator counted, are within the array written to: the caller's   *)
(* DWA_BUFSIZE characters, or the static buf of the function entered when  *)
(* s is a null pointer.                                                    *)
(***************************************************************************)
OutputFits ==
    pc = "calls" =>
        /\ ~oob
        /\ (calls[1].pc = "reverse" /\ calls[1].j = 0) =>
               calls[1].off + calls[1].i + 1 <= Len(bufs[calls[1].p])

\* the output that does not fit is that of dwa_tostr(NULL, x, 2) for the
\* smallest x: '-', Bits digits and the terminator in the Bits + 1
\* characters of the static buf of dwa_tostr()
OutputFitsButSmallest ==
    (pc = "calls" /\ oob) =>
        /\ calls[1].entry = "tostr"
        /\ calls[1].s = "NULL"
        /\ calls[1].x = MinValue
        /\ calls[1].base = 2

=============================================================================
